---- MODULE Spec2Model ----
(***************************************************************************)
(* Model of the OpenSCAD MCP server's parameter normalizers                *)
(* (parse_camera_param, parse_image_size_param, parse_list_param,          *)
(* parse_dict_param) and of its response size manager                      *)
(* (estimate_response_size, save_image_to_file, compress_base64_image,     *)
(* manage_response_size), all of src/src/openscad_mcp/server.py.           *)
(*                                                                         *)
(* Python strings are sequences of one-character strings.  Python values   *)
(* are records of one shape (so that any two can be compared):             *)
(*   t      "none" | "list" | "tuple" | "dict" | "str" | "int"             *)
(*   id     the identity of an object ("": a value without one)            *)
(*   items  the elements of a list or tuple, the values of a dict, or the  *)
(*          single scalar of an "int"                                      *)
(*   keys   the keys of a dict, in insertion order, parallel to items      *)
(*   chars  the characters of a str                                        *)
(* Elements are scalars [ty, n, e, s]: ty is "int", "float", "bool",       *)
(* "str", "null", "list" or "dict"; a number is n / 10^e (a float is kept  *)
(* normalised: e = 0 or n not divisible by 10); s holds a str's            *)
(* characters; a nested list or dict is opaque (n is its length).          *)
(***************************************************************************)
EXTENDS Integers, Sequences, FiniteSets, TLC

(***************************************************************************)
(* Characters and strings                                                  *)
(***************************************************************************)

IsWs(c) == c \in {" ", "\t", "\n", "\r"}

IsDigit(c) == c \in {"0", "1", "2", "3", "4", "5", "6", "7", "8", "9"}

DigitVal(c) ==
    CASE c = "0" -> 0 [] c = "1" -> 1 [] c = "2" -> 2 [] c = "3" -> 3
      [] c = "4" -> 4 [] c = "5" -> 5 [] c = "6" -> 6 [] c = "7" -> 7
      [] c = "8" -> 8 [] c = "9" -> 9

DigitChar(d) == <<"0", "1", "2", "3", "4", "5", "6", "7", "8", "9">>[d + 1]

RECURSIVE Pow10(_)
Pow10(k) == IF k = 0 THEN 1 ELSE 10 * Pow10(k - 1)

\* str.strip(): leading and trailing whitespace removed.
RECURSIVE LStrip(_)
LStrip(s) == IF s # <<>> /\ IsWs(Head(s)) THEN LStrip(Tail(s)) ELSE s

RECURSIVE RStrip(_)
RStrip(s) ==
    IF s # <<>> /\ IsWs(s[Len(s)]) THEN RStrip(SubSeq(s, 1, Len(s) - 1)) ELSE s

Strip(s) == RStrip(LStrip(s))

\* c in s
Contains(s, c) == \E i \in 1..Len(s) : s[i] = c

\* s.startswith(c)
StartsWith(s, c) == s # <<>> /\ s[1] = c

\* s.split(c): the pieces between the occurrences of c, empty pieces kept.
RECURSIVE SplitFrom(_, _, _)
SplitFrom(s, c, cur) ==
    IF s = <<>> THEN <<cur>>
    ELSE IF Head(s) = c THEN <<cur>> \o SplitFrom(Tail(s), c, <<>>)
    ELSE SplitFrom(Tail(s), c, Append(cur, Head(s)))

Split(s, c) == SplitFrom(s, c, <<>>)

\* str.lower() on the letters of the model's alphabet.
LowerChar(c) ==
    CASE c = "T" -> "t" [] c = "R" -> "r" [] c = "U" -> "u" [] c = "E" -> "e"
      [] c = "F" -> "f" [] c = "A" -> "a" [] c = "L" -> "l" [] c = "S" -> "s"
      [] c = "X" -> "x" [] OTHER -> c

Lower(s) == [i \in 1..Len(s) |-> LowerChar(s[i])]

(***************************************************************************)
(* Scalars and values                                                      *)
(***************************************************************************)

Sc(ty, n, e, s) == [ty |-> ty, n |-> n, e |-> e, s |-> s]

IntSc(n) == Sc("int", n, 0, <<>>)

\* A float n / 10^e, normalised.
RECURSIVE FloatSc(_, _)
FloatSc(n, e) ==
    IF e > 0 /\ n % 10 = 0 THEN FloatSc(n \div 10, e - 1) ELSE Sc("float", n, e, <<>>)

BoolSc(b) == Sc("bool", IF b THEN 1 ELSE 0, 0, <<>>)

StrSc(s) == Sc("str", 0, 0, s)

NullSc == Sc("null", 0, 0, <<>>)

Val(t, id, items, keys, chars) ==
    [t |-> t, id |-> id, items |-> items, keys |-> keys, chars |-> chars]

NoneV == Val("none", "", <<>>, <<>>, <<>>)

ListV(id, items) == Val("list", id, items, <<>>, <<>>)

TupleV(id, items) == Val("tuple", id, items, <<>>, <<>>)

DictV(id, keys, items) == Val("dict", id, items, keys, <<>>)

StrV(chars) == Val("str", "", <<>>, <<>>, chars)

IntV(n) == Val("int", "", <<IntSc(n)>>, <<>>, <<>>)

\* The identity of an object the callee allocates (a list or dict literal,
\* a comprehension, the result of json.loads).
FreshId == "fresh"

\* d[k] = v on a dict given as parallel key and value sequences.
DictPut(d, k, v) ==
    IF \E i \in 1..Len(d.keys) : d.keys[i] = k
    THEN [d EXCEPT !.items =
            [i \in 1..Len(d.items) |-> IF d.keys[i] = k THEN v ELSE d.items[i]]]
    ELSE [d EXCEPT !.keys = Append(d.keys, k), !.items = Append(d.items, v)]

HasKey(d, k) == \E i \in 1..Len(d.keys) : d.keys[i] = k

DictGet(d, k) == d.items[CHOOSE i \in 1..Len(d.keys) : d.keys[i] = k]

(***************************************************************************)
(* Outcomes of a call: a returned value or a raised exception              *)
(***************************************************************************)

Ret(v) == [st |-> "ok", exc |-> "", val |-> v, msg |-> "", n |-> 0, echo |-> <<>>]

Raise(exc, msg, n, echo) ==
    [st |-> "raise", exc |-> exc, val |-> NoneV, msg |-> msg, n |-> n, echo |-> echo]

(***************************************************************************)
(* int(), float() and the decimal text of a number                         *)
(***************************************************************************)

AllDigits(s) == s # <<>> /\ \A i \in 1..Len(s) : IsDigit(s[i])

RECURSIVE DigitsVal(_)
DigitsVal(s) ==
    IF s = <<>> THEN 0
    ELSE 10 * DigitsVal(SubSeq(s, 1, Len(s) - 1)) + DigitVal(s[Len(s)])

Unsigned(s) == IF s # <<>> /\ s[1] \in {"+", "-"} THEN Tail(s) ELSE s

Signed(s, n) == IF s # <<>> /\ s[1] = "-" THEN 0 - n ELSE n

\* int(s) for a str: optional whitespace, optional sign, decimal digits.
StrIsInt(s) == AllDigits(Unsigned(Strip(s)))

StrInt(s) == Signed(Strip(s), DigitsVal(Unsigned(Strip(s))))

\* float(s) for a str: digits with at most one decimal point, a digit on at
\* least one side of it.
StrIsFloat(s) ==
    LET u == Unsigned(Strip(s))
        p == Split(u, ".")
    IN  \/ AllDigits(u)
        \/ /\ Len(p) = 2
           /\ p[1] \o p[2] # <<>>
           /\ \A i \in 1..Len(p[1]) : IsDigit(p[1][i])
           /\ \A i \in 1..Len(p[2]) : IsDigit(p[2][i])

StrFloat(s) ==
    LET u == Unsigned(Strip(s))
        p == Split(u, ".")
    IN  IF Len(p) = 1 THEN FloatSc(Signed(Strip(s), DigitsVal(u)), 0)
        ELSE FloatSc(Signed(Strip(s), DigitsVal(p[1] \o p[2])), Len(p[2]))

\* float -> int truncates toward zero.
Trunc(n, e) == IF n >= 0 THEN n \div Pow10(e) ELSE 0 - ((0 - n) \div Pow10(e))

\* int(x): [ok, exc, sc]
ToInt(x) ==
    CASE x.ty \in {"int", "bool"} -> [ok |-> TRUE, exc |-> "", sc |-> IntSc(x.n)]
      [] x.ty = "float" -> [ok |-> TRUE, exc |-> "", sc |-> IntSc(Trunc(x.n, x.e))]
      [] x.ty = "str" ->
            IF StrIsInt(x.s) THEN [ok |-> TRUE, exc |-> "", sc |-> IntSc(StrInt(x.s))]
            ELSE [ok |-> FALSE, exc |-> "ValueError", sc |-> NullSc]
      [] OTHER -> [ok |-> FALSE, exc |-> "TypeError", sc |-> NullSc]

\* float(x): [ok, exc, sc]
ToFloat(x) ==
    CASE x.ty \in {"int", "bool", "float"} ->
            [ok |-> TRUE, exc |-> "", sc |-> FloatSc(x.n, x.e)]
      [] x.ty = "str" ->
            IF StrIsFloat(x.s) THEN [ok |-> TRUE, exc |-> "", sc |-> StrFloat(x.s)]
            ELSE [ok |-> FALSE, exc |-> "ValueError", sc |-> NullSc]
      [] OTHER -> [ok |-> FALSE, exc |-> "TypeError", sc |-> NullSc]

\* str(n) of a natural number.
RECURSIVE NatText(_)
NatText(n) ==
    IF n < 10 THEN <<DigitChar(n)>> ELSE Append(NatText(n \div 10), DigitChar(n % 10))

\* The e fraction digits of n, zero padded on the left.
RECURSIVE FracText(_, _)
FracText(n, e) ==
    IF e = 0 THEN <<>> ELSE Append(FracText(n \div 10, e - 1), DigitChar(n % 10))

\* str(x) and json.dumps(x) of a number: "800", "-3", "1.5", "2.0".
NumText(x) ==
    LET a == IF x.n < 0 THEN 0 - x.n ELSE x.n
        sign == IF x.n < 0 THEN <<"-">> ELSE <<>>
    IN  IF x.ty = "int" THEN sign \o NatText(a)
        ELSE IF x.e = 0 THEN sign \o NatText(a) \o <<".", "0">>
        ELSE sign \o NatText(a \div Pow10(x.e)) \o <<".">> \o FracText(a % Pow10(x.e), x.e)

(***************************************************************************)
(* json.loads on texts over the model's alphabet: whitespace, numbers      *)
(* without exponent, strings without escapes, true/false/null, arrays and  *)
(* objects.  Positions are 1-based; a result is [ok, sc, items, keys,      *)
(* pos], pos being the position after the value.                           *)
(***************************************************************************)

\* The character at position p, "" past the end.
At(s, p) == IF p >= 1 /\ p <= Len(s) THEN s[p] ELSE ""

RECURSIVE SkipWs(_, _)
SkipWs(s, p) == IF p <= Len(s) /\ IsWs(s[p]) THEN SkipWs(s, p + 1) ELSE p

RECURSIVE DigitsEnd(_, _)
DigitsEnd(s, p) == IF p <= Len(s) /\ IsDigit(s[p]) THEN DigitsEnd(s, p + 1) ELSE p

JFail == [ok |-> FALSE, sc |-> NullSc, items |-> <<>>, keys |-> <<>>, pos |-> 0]

JOk(sc, items, keys, pos) ==
    [ok |-> TRUE, sc |-> sc, items |-> items, keys |-> keys, pos |-> pos]

\* The number whose digits start at q (p is where its text starts, a "-"
\* included), its integer part ending before ie and its fraction before fe.
JNumberValue(s, p, q, ie, fe) ==
    IF ie = q THEN JFail
    ELSE IF fe = ie
    THEN JOk(IntSc(Signed(<<At(s, p)>>, DigitsVal(SubSeq(s, q, ie - 1)))), <<>>, <<>>, ie)
    ELSE JOk(FloatSc(Signed(<<At(s, p)>>,
                            DigitsVal(SubSeq(s, q, ie - 1) \o SubSeq(s, ie + 1, fe - 1))),
                     fe - ie - 1),
             <<>>, <<>>, fe)

\* The fraction after the integer part that ends before ie: a "." and at
\* least one digit.
JNumberFrac(s, p, q, ie) ==
    JNumberValue(s, p, q, ie,
                 IF At(s, ie) = "." /\ DigitsEnd(s, ie + 1) > ie + 1
                 THEN DigitsEnd(s, ie + 1) ELSE ie)

\* -?(0|[1-9][0-9]*)(\.[0-9]+)? with its digits starting at q.
\* (An exponent part, which no input of the model has, is not read.)
JNumberInt(s, p, q) ==
    JNumberFrac(s, p, q, IF At(s, q) = "0" THEN q + 1 ELSE DigitsEnd(s, q))

\* The position of the closing quote of a string whose text starts at p; 0 if
\* the string is not closed or holds a control character.
RECURSIVE QuoteEnd(_, _)
QuoteEnd(s, p) ==
    IF p > Len(s) \/ s[p] \in {"\t", "\n", "\r"} THEN 0
    ELSE IF s[p] = "\"" THEN p
    ELSE QuoteEnd(s, p + 1)

JString(s, p) ==
    IF QuoteEnd(s, p + 1) = 0 THEN JFail
    ELSE JOk(StrSc(SubSeq(s, p + 1, QuoteEnd(s, p + 1) - 1)), <<>>, <<>>,
             QuoteEnd(s, p + 1) + 1)

JWord(s, p, w) == p + Len(w) - 1 <= Len(s) /\ SubSeq(s, p, p + Len(w) - 1) = w

RECURSIVE JValue(_, _), JElems(_, _, _), JMembers(_, _, _)

\* The elements of an array from position p on, acc being those read so far.
JElems(s, p, acc) ==
    LET v == JValue(s, p)
        q == SkipWs(s, v.pos)
    IN  IF ~v.ok THEN JFail
        ELSE IF At(s, q) = "," THEN JElems(s, SkipWs(s, q + 1), Append(acc, v.sc))
        ELSE IF At(s, q) = "]"
        THEN JOk(Sc("list", Len(acc) + 1, 0, <<>>), Append(acc, v.sc), <<>>, q + 1)
        ELSE JFail

\* The members of an object from position p on, d being those read so far.
JMembers(s, p, d) ==
    LET k == JString(s, p)
        q == SkipWs(s, k.pos)
        v == JValue(s, SkipWs(s, q + 1))
        r == SkipWs(s, v.pos)
        d2 == DictPut(d, k.sc.s, v.sc)
    IN  IF At(s, p) # "\"" \/ ~k.ok \/ At(s, q) # ":" \/ ~v.ok THEN JFail
        ELSE IF At(s, r) = "," THEN JMembers(s, SkipWs(s, r + 1), d2)
        ELSE IF At(s, r) = "}"
        THEN JOk(Sc("dict", Len(d2.keys), 0, <<>>), d2.items, d2.keys, r + 1)
        ELSE JFail

JValueAt(s, p, c) ==
    CASE c = "\"" -> JString(s, p)
      [] c = "[" -> IF At(s, SkipWs(s, p + 1)) = "]"
                    THEN JOk(Sc("list", 0, 0, <<>>), <<>>, <<>>, SkipWs(s, p + 1) + 1)
                    ELSE JElems(s, SkipWs(s, p + 1), <<>>)
      [] c = "{" -> IF At(s, SkipWs(s, p + 1)) = "}"
                    THEN JOk(Sc("dict", 0, 0, <<>>), <<>>, <<>>, SkipWs(s, p + 1) + 1)
                    ELSE JMembers(s, SkipWs(s, p + 1), DictV(FreshId, <<>>, <<>>))
      [] c = "t" /\ JWord(s, p, <<"t", "r", "u", "e">>) -> JOk(BoolSc(TRUE), <<>>, <<>>, p + 4)
      [] c = "f" /\ JWord(s, p, <<"f", "a", "l", "s", "e">>) ->
            JOk(BoolSc(FALSE), <<>>, <<>>, p + 5)
      [] c = "n" /\ JWord(s, p, <<"n", "u", "l", "l">>) -> JOk(NullSc, <<>>, <<>>, p + 4)
      [] c = "-" -> JNumberInt(s, p, p + 1)
      [] IsDigit(c) -> JNumberInt(s, p, p)
      [] OTHER -> JFail

JValue(s, p) == JValueAt(s, p, At(s, p))

\* The value of the whole text: nothing but whitespace may follow it.
JTop(s, v) ==
    IF ~v.ok \/ SkipWs(s, v.pos) # Len(s) + 1 THEN [ok |-> FALSE, val |-> NoneV]
    ELSE [ok |-> TRUE,
          val |-> CASE v.sc.ty = "list" -> ListV(FreshId, v.items)
                    [] v.sc.ty = "dict" -> DictV(FreshId, v.keys, v.items)
                    [] v.sc.ty = "str" -> StrV(v.sc.s)
                    [] OTHER -> Val(v.sc.ty, "", <<v.sc>>, <<>>, <<>>)]

\* json.loads(s): [ok, val]; a JSONDecodeError is ok = FALSE.
JsonLoads(s) == JTop(s, JValue(s, SkipWs(s, 1)))

\* json.dumps of a list of numbers: "[1.5, 2, 3]".
RECURSIVE JoinNums(_)
JoinNums(xs) ==
    IF xs = <<>> THEN <<>>
    ELSE IF Len(xs) = 1 THEN NumText(xs[1])
    ELSE NumText(xs[1]) \o <<",", " ">> \o JoinNums(Tail(xs))

DumpsList(xs) == <<"[">> \o JoinNums(xs) \o <<"]">>

\* json.dumps of {"x": a, "y": b, "z": c}.
DumpsXYZ(xs) ==
    <<"{", "\"", "x", "\"", ":", " ">> \o NumText(xs[1])
      \o <<",", " ", "\"", "y", "\"", ":", " ">> \o NumText(xs[2])
      \o <<",", " ", "\"", "z", "\"", ":", " ">> \o NumText(xs[3]) \o <<"}">>

(***************************************************************************)
(* The parameter normalizers                                               *)
(***************************************************************************)

\* [float(v) for v in xs] and [int(v) for v in xs], element by element:
\* each is [ok, exc, sc].
Floats(xs) == [i \in 1..Len(xs) |-> ToFloat(xs[i])]

Ints(xs) == [i \in 1..Len(xs) |-> ToInt(xs[i])]

\* The list built from conversions rs that all succeed; else the exception
\* of the first that fails: valueError when that is a ValueError, the
\* TypeError otherwise.
Converted(rs, valueError) ==
    IF \A i \in 1..Len(rs) : rs[i].ok
    THEN Ret(ListV(FreshId, [i \in 1..Len(rs) |-> rs[i].sc]))
    ELSE IF rs[CHOOSE i \in 1..Len(rs) : ~rs[i].ok /\ \A j \in 1..(i - 1) : rs[j].ok].exc
            = "ValueError"
    THEN valueError
    ELSE Raise("TypeError", "argument must be a string or a real number", 0, <<>>)

\* The ValueError of int() or float() on a text that is no number.
BadLiteral == Raise("ValueError", "invalid literal", 0, <<>>)

KeyX == <<"x">>
KeyY == <<"y">>
KeyZ == <<"z">>

\* XYZ taking the first three values in the order of the dict.
XYZ_in_dict_order(d) == <<d.items[1], d.items[2], d.items[3]>>

XYZ(d) == <<DictGet(d, KeyX), DictGet(d, KeyY), DictGet(d, KeyZ)>>

HasXYZ(d) == HasKey(d, KeyX) /\ HasKey(d, KeyY) /\ HasKey(d, KeyZ)

\* The str branch of parse_camera_param: every ValueError raised inside the
\* try (a decode error included) is raised again as "Cannot parse '<param>'
\* as camera parameter"; a TypeError of float() is not caught.
CameraWrapped(param) ==
    Raise("ValueError", "Cannot parse as camera parameter", 0, param.chars)

CameraFromJson(param, j) ==
    IF ~j.ok THEN CameraWrapped(param)
    ELSE IF j.val.t = "list" /\ Len(j.val.items) = 3
    THEN Converted(Floats(j.val.items), CameraWrapped(param))
    ELSE IF j.val.t = "dict" /\ HasXYZ(j.val)
    THEN Converted(Floats(XYZ(j.val)), CameraWrapped(param))
    ELSE CameraWrapped(param)

parse_camera_param(param, default) ==
    IF param.t = "none" THEN Ret(default)
    ELSE IF param.t = "list"
    THEN IF Len(param.items) = 3 THEN Converted(Floats(param.items), BadLiteral)
         ELSE Raise("ValueError", "Expected 3 values for camera parameter, got",
                    Len(param.items), <<>>)
    ELSE IF param.t = "dict"
    THEN IF HasXYZ(param) THEN Converted(Floats(XYZ(param)), BadLiteral)
         ELSE Raise("ValueError", "Dict must have x, y, z keys, got", Len(param.keys), <<>>)
    ELSE IF param.t = "str" THEN CameraFromJson(param, JsonLoads(Strip(param.chars)))
    ELSE Raise("ValueError", "Unexpected type for camera parameter", 0, <<>>)

\* ListFromCsv keeping the parts that are empty.
ListFromCsv_keeps_empty(s) ==
    IF Contains(s, ",")
    THEN Ret(ListV(FreshId, [i \in 1..Len(Split(s, ",")) |-> StrSc(Strip(Split(s, ",")[i]))]))
    ELSE Ret(ListV(FreshId, <<StrSc(s)>>))

\* "a, b," -> ["a", "b"]: split on commas, strip, drop what is empty.
ListFromCsv(s) ==
    IF Contains(s, ",")
    THEN Ret(ListV(FreshId,
                   SelectSeq([i \in 1..Len(Split(s, ",")) |-> StrSc(Strip(Split(s, ",")[i]))],
                             LAMBDA x : x.s # <<>>)))
    ELSE Ret(ListV(FreshId, <<StrSc(s)>>))

ListFromJson(s, j) ==
    IF ~j.ok THEN ListFromCsv(s)
    ELSE IF j.val.t = "list" THEN Ret(j.val)
    ELSE Raise("ValueError", "JSON parsed to, expected list", 0, <<>>)

\* The str branch of parse_list_param, on the stripped text.
ListFromStr(s) ==
    IF StartsWith(s, "[") THEN ListFromJson(s, JsonLoads(s)) ELSE ListFromCsv(s)

\* parse_list_param returning list(default), an equal copy, when absent.
parse_list_param_copy(param, default) ==
    IF param.t = "none" THEN Ret([default EXCEPT !.id = FreshId])
    ELSE IF param.t = "list" THEN Ret(param)
    ELSE IF param.t = "str" THEN ListFromStr(Strip(param.chars))
    ELSE Raise("ValueError", "Cannot parse list from type", 0, <<>>)

parse_list_param(param, default) ==
    IF param.t = "none" THEN Ret(default)
    ELSE IF param.t = "list" THEN Ret(param)
    ELSE IF param.t = "str" THEN ListFromStr(Strip(param.chars))
    ELSE Raise("ValueError", "Cannot parse list from type", 0, <<>>)

\* The coercion of one key=value value: int if it has no ".", float if it
\* has one, and when that raises ValueError: bool, or the text itself.
CoerceValue(v) ==
    IF Contains(v, ".") /\ StrIsFloat(v) THEN StrFloat(v)
    ELSE IF ~Contains(v, ".") /\ StrIsInt(v) THEN IntSc(StrInt(v))
    ELSE IF Lower(v) = <<"t", "r", "u", "e">> THEN BoolSc(TRUE)
    ELSE IF Lower(v) = <<"f", "a", "l", "s", "e">> THEN BoolSc(FALSE)
    ELSE StrSc(v)

\* The position of the first "=" of s, from i on.
RECURSIVE EqPos(_, _)
EqPos(s, i) == IF s[i] = "=" THEN i ELSE EqPos(s, i + 1)

\* PutIfPair skipping a pair whose value is empty.
PutIfPair_skip_empty(d, pair) ==
    IF Contains(pair, "=") /\ Strip(SubSeq(pair, EqPos(pair, 1) + 1, Len(pair))) # <<>>
    THEN DictPut(d, Strip(SubSeq(pair, 1, EqPos(pair, 1) - 1)),
                 CoerceValue(Strip(SubSeq(pair, EqPos(pair, 1) + 1, Len(pair)))))
    ELSE d

\* pair.split("=", 1) of a pair that has "=", both sides stripped and the
\* value coerced, put into d; a pair without "=" is skipped.
PutIfPair(d, pair) ==
    IF Contains(pair, "=")
    THEN DictPut(d, Strip(SubSeq(pair, 1, EqPos(pair, 1) - 1)),
                 CoerceValue(Strip(SubSeq(pair, EqPos(pair, 1) + 1, Len(pair)))))
    ELSE d

\* The loop over the comma-separated pairs of the key=value branch.
RECURSIVE PairsInto(_, _)
PairsInto(pairs, d) ==
    IF pairs = <<>> THEN d
    ELSE PairsInto(Tail(pairs), PutIfPair(d, Strip(Head(pairs))))

DictFromPairs(s) ==
    IF Contains(s, "=") THEN Ret(PairsInto(Split(s, ","), DictV(FreshId, <<>>, <<>>)))
    ELSE Raise("ValueError", "Cannot parse dict from type", 0, <<>>)

\* DictFromJson raising on a text that does not decode.
DictFromJson_strict(s, j) ==
    IF ~j.ok THEN Raise("ValueError", "Cannot parse dict from type", 0, <<>>)
    ELSE IF j.val.t = "dict" THEN Ret(j.val)
    ELSE Raise("ValueError", "JSON parsed to, expected dict", 0, <<>>)

DictFromJson(s, j) ==
    IF ~j.ok THEN DictFromPairs(s)
    ELSE IF j.val.t = "dict" THEN Ret(j.val)
    ELSE Raise("ValueError", "JSON parsed to, expected dict", 0, <<>>)

\* The str branch of parse_dict_param, on the stripped text.
DictFromStr(s) ==
    IF StartsWith(s, "{") THEN DictFromJson(s, JsonLoads(s)) ELSE DictFromPairs(s)

parse_dict_param(param, default) ==
    IF param.t = "none" THEN Ret(default)
    ELSE IF param.t = "dict" THEN Ret(param)
    ELSE IF param.t = "str" THEN DictFromStr(Strip(param.chars))
    ELSE Raise("ValueError", "Cannot parse dict from type", 0, <<>>)

\* [int(parts[0].strip()), int(parts[1].strip())] of two texts.
PartsPair(parts) == <<StrSc(Strip(parts[1])), StrSc(Strip(parts[2]))>>

\* The outcome of a form that does not apply: the next form is tried.
Pass == [st |-> "pass", exc |-> "", val |-> NoneV, msg |-> "", n |-> 0, echo |-> <<>>]

CannotParseSize(echo) == Raise("ValueError", "Cannot parse image size from", 0, echo)

\* SizeFromX without the "W,H" form after it.
SizeFromX_no_comma(s, px) ==
    IF Contains(s, "x") /\ Len(px) = 2 THEN Converted(Ints(PartsPair(px)), BadLiteral)
    ELSE CannotParseSize(s)

\* SizeFromX splitting on "x" and on "X" alike.
SizeFromX_any_case(s, px) ==
    IF Contains(Lower(s), "x") /\ Len(Split(Lower(s), "x")) = 2
    THEN Converted(Ints(PartsPair(Split(Lower(s), "x"))), BadLiteral)
    ELSE IF Contains(s, ",") /\ ~StartsWith(s, "[") /\ Len(Split(s, ",")) = 2
    THEN Converted(Ints(PartsPair(Split(s, ","))), BadLiteral)
    ELSE CannotParseSize(s)

\* The "WxH" form, px being s.split("x"), and after it the "W,H" form.
SizeFromX(s, px) ==
    IF Contains(s, "x") /\ Len(px) = 2 THEN Converted(Ints(PartsPair(px)), BadLiteral)
    ELSE IF Contains(s, ",") /\ ~StartsWith(s, "[") /\ Len(Split(s, ",")) = 2
    THEN Converted(Ints(PartsPair(Split(s, ","))), BadLiteral)
    ELSE CannotParseSize(s)

\* SizeFromJson taking the first two values of a longer array.
SizeFromJson_truncating(j) ==
    IF j.ok /\ j.val.t = "list" /\ Len(j.val.items) >= 2
    THEN Converted(Ints(SubSeq(j.val.items, 1, 2)), Pass)
    ELSE Pass

\* The JSON form: a ValueError of int() is swallowed, a TypeError is not.
SizeFromJson(j) ==
    IF j.ok /\ j.val.t = "list" /\ Len(j.val.items) = 2
    THEN Converted(Ints(j.val.items), Pass)
    ELSE Pass

SizeAfterJson(s, a) == IF a.st = "pass" THEN SizeFromX(s, Split(s, "x")) ELSE a

\* The str branch of parse_image_size_param, on the stripped text.
ImageSizeFromStr(s) ==
    SizeAfterJson(s, IF StartsWith(s, "[") THEN SizeFromJson(JsonLoads(s)) ELSE Pass)

parse_image_size_param(param, default) ==
    IF param.t = "none" THEN Ret(default)
    ELSE IF param.t \in {"list", "tuple"}
    THEN IF Len(param.items) = 2 THEN Converted(Ints(param.items), BadLiteral)
         ELSE Raise("ValueError", "Image size must have 2 values, got",
                    Len(param.items), <<>>)
    ELSE IF param.t = "str" THEN ImageSizeFromStr(Strip(param.chars))
    ELSE CannotParseSize(param.chars)

(***************************************************************************)
(* base64, the size estimate and the image codec                           *)
(***************************************************************************)

B64Alphabet ==
    <<"A", "B", "C", "D", "E", "F", "G", "H", "I", "J", "K", "L", "M", "N", "O", "P",
      "Q", "R", "S", "T", "U", "V", "W", "X", "Y", "Z", "a", "b", "c", "d", "e", "f",
      "g", "h", "i", "j", "k", "l", "m", "n", "o", "p", "q", "r", "s", "t", "u", "v",
      "w", "x", "y", "z", "0", "1", "2", "3", "4", "5", "6", "7", "8", "9", "+", "/">>

\* The value of each character of the alphabet.
B64Index == [c \in {B64Alphabet[i] : i \in 1..64} |->
               (CHOOSE i \in 1..64 : B64Alphabet[i] = c) - 1]

\* base64.b64decode(s) (validate=False): characters outside the alphabet are
\* skipped, "=" ends the data once it completes a quad, and data that stops
\* inside a quad raises.  quad is the position in the current quad, left the
\* bits carried over, pads the "=" seen in a row, out the bytes so far.
RECURSIVE A2B(_, _, _, _, _, _)
A2B(s, i, quad, left, pads, out) ==
    IF i > Len(s) THEN [ok |-> quad = 0, bytes |-> out]
    ELSE IF s[i] = "="
    THEN IF quad >= 2 /\ quad + pads + 1 >= 4 THEN [ok |-> TRUE, bytes |-> out]
         ELSE A2B(s, i + 1, quad, left, IF quad >= 2 THEN pads + 1 ELSE pads, out)
    ELSE IF s[i] \notin DOMAIN B64Index THEN A2B(s, i + 1, quad, left, pads, out)
    ELSE LET v == B64Index[s[i]]
         IN  CASE quad = 0 -> A2B(s, i + 1, 1, v, 0, out)
               [] quad = 1 ->
                    A2B(s, i + 1, 2, v % 16, 0, Append(out, left * 4 + (v \div 16)))
               [] quad = 2 ->
                    A2B(s, i + 1, 3, v % 4, 0, Append(out, left * 16 + (v \div 4)))
               [] quad = 3 -> A2B(s, i + 1, 0, 0, 0, Append(out, left * 64 + v))

\* b64decode returning what it has decoded where the padding is wrong.
b64decode_lenient(s) == [ok |-> TRUE, bytes |-> A2B(s, 1, 0, 0, 0, <<>>).bytes]

b64decode(s) == A2B(s, 1, 0, 0, 0, <<>>)

\* base64.b64encode(b).decode("utf-8")
RECURSIVE b64encode(_)
b64encode(b) ==
    IF b = <<>> THEN <<>>
    ELSE IF Len(b) = 1
    THEN <<B64Alphabet[(b[1] \div 4) + 1], B64Alphabet[(b[1] % 4) * 16 + 1], "=", "=">>
    ELSE IF Len(b) = 2
    THEN <<B64Alphabet[(b[1] \div 4) + 1],
           B64Alphabet[(b[1] % 4) * 16 + (b[2] \div 16) + 1],
           B64Alphabet[(b[2] % 16) * 4 + 1], "=">>
    ELSE <<B64Alphabet[(b[1] \div 4) + 1],
           B64Alphabet[(b[1] % 4) * 16 + (b[2] \div 16) + 1],
           B64Alphabet[(b[2] % 16) * 4 + (b[3] \div 64) + 1],
           B64Alphabet[(b[3] % 64) + 1]>> \o b64encode(SubSeq(b, 4, Len(b)))

\* The input of manage_response_size: kind is "dict" (name -> payload) or
\* "list" (records {"data": payload}); recs holds [name, data] in order, the
\* name of a list record being unused.
RECURSIVE SumLen(_, _)
SumLen(recs, keyed) ==
    IF recs = <<>> THEN 0
    ELSE (IF keyed THEN Len(Head(recs).name) + 2 + 2 + Len(Head(recs).data) + 2
          ELSE 2 + 6 + 2 + Len(Head(recs).data) + 2)
         + (IF Len(recs) > 1 THEN 2 ELSE 0) + SumLen(Tail(recs), keyed)

\* DumpsLen with the compact separators "," and ":".
DumpsLen_compact(images) ==
    2 + SumLen(images.recs, images.kind = "dict") - Len(images.recs)
      - (IF Len(images.recs) > 1 THEN Len(images.recs) - 1 ELSE 0)

\* len(json.dumps(images)): {"k": "v", ...} or [{"data": "v"}, ...], with
\* ", " and ": " as separators; names and payloads need no escapes.
DumpsLen(images) == 2 + SumLen(images.recs, images.kind = "dict")

estimate_response_size(images) == DumpsLen(images) \div 4

\* The PNG signature's first bytes, by which the codec recognises an image.
PngMagic == <<137, 80, 78>>

RECURSIVE Zeros(_)
Zeros(k) == IF k = 0 THEN <<>> ELSE <<0>> \o Zeros(k - 1)

\* The images of the model, as bytes.
GoodBytes == PngMagic \o Zeros(27)
EdgeBytes == PngMagic \o Zeros(26) \o <<1>>

\* The payloads of the model.  Raw decodes but is no image, Bad does not
\* decode, the others are images.
Raw == <<"A", "A", "A", "A">>
Bad == <<"A", "A", "A", "A", "A">>
PngGood == b64encode(GoodBytes)
PngEdge == b64encode(EdgeBytes)

Payloads == {Raw, Bad, PngGood, PngEdge}

\* Image.open(...) followed by image.save(buffer, format="PNG", ...): the
\* bytes of the re-encoded image, ok = FALSE when the codec raises.  The codec
\* is Pillow's; on the payloads of the model it is this table: PngGood shrinks
\* to 6/10 of its length, PngEdge to exactly 7/10, another image does not
\* shrink.
PILReencode(bytes) ==
    IF Len(bytes) < 3 \/ SubSeq(bytes, 1, 3) # PngMagic THEN [ok |-> FALSE, bytes |-> <<>>]
    ELSE IF bytes = GoodBytes THEN [ok |-> TRUE, bytes |-> PngMagic \o Zeros(15)]
    ELSE IF bytes = EdgeBytes THEN [ok |-> TRUE, bytes |-> PngMagic \o Zeros(18)]
    ELSE [ok |-> TRUE, bytes |-> bytes]

\* compress_base64_image: [ok, data]; ok = FALSE is its ValueError.
compress_base64_image(base64_data) ==
    LET d == b64decode(base64_data)
        r == PILReencode(d.bytes)
    IN  IF d.ok /\ r.ok THEN [ok |-> TRUE, data |-> b64encode(r.bytes)]
        ELSE [ok |-> FALSE, data |-> <<>>]

\* len(compressed) / len(data) < 0.7, the lengths being positive.
RatioBelow(compressed, data) == 10 * Len(compressed) < 7 * Len(data)

(***************************************************************************)
(* manage_response_size: descriptors and mode resolution                   *)
(***************************************************************************)

NoPath == <<>>

NoRatio == <<>>

\* One value of the response: a descriptor dict with the keys in fields, or,
\* with type "str", the raw payload itself.
Desc(type, data, path, ratio, fields) ==
    [type |-> type, data |-> data, path |-> path, ratio |-> ratio, fields |-> fields]

InlineDesc(data) ==
    Desc("base64", data, NoPath, NoRatio, {"type", "data", "mime_type"})

FileDesc(path) ==
    Desc("file_path", <<>>, path, NoRatio, {"type", "path", "mime_type"})

\* CompressedDesc without its compression_ratio.
CompressedDesc_no_ratio(compressed, data) ==
    Desc("base64_compressed", compressed, NoPath, NoRatio, {"type", "data", "mime_type"})

CompressedDesc(compressed, data) ==
    Desc("base64_compressed", compressed, NoPath, <<Len(compressed), Len(data)>>,
         {"type", "data", "mime_type", "compression_ratio"})

RawStr(data) == Desc("str", data, NoPath, NoRatio, {})

\* working_images: the (name, payload) pairs, a list record being named
\* image_<index>.
ListNames == <<"image_0", "image_1", "image_2", "image_3">>

working_images(images) ==
    [i \in 1..Len(images.recs) |->
        [name |-> IF images.kind = "dict" THEN images.recs[i].name ELSE ListNames[i],
         data |-> images.recs[i].data]]

\* The trial of automatic mode: the payloads handed to compress_base64_image
\* (working_images[:1]) and whether one of them shrinks below 0.7.
\* TrialImages over working_images, not working_images[:1].
TrialImages_all(w) == w

TrialImages(w) == SubSeq(w, 1, IF Len(w) >= 1 THEN 1 ELSE 0)

TrialShrinks(w) ==
    \E i \in 1..Len(TrialImages(w)) :
        /\ compress_base64_image(w[i].data).ok
        /\ RatioBelow(compress_base64_image(w[i].data).data, w[i].data)

\* ResolveFormat with ">=" in place of ">".
ResolveFormat_at_budget(images, output_format, max_size) ==
    IF output_format # "auto" THEN output_format
    ELSE IF estimate_response_size(images) >= max_size
    THEN IF TrialShrinks(working_images(images)) THEN "compressed" ELSE "file_path"
    ELSE "base64"

\* The output format after the "auto" block.
ResolveFormat(images, output_format, max_size) ==
    IF output_format # "auto" THEN output_format
    ELSE IF estimate_response_size(images) > max_size
    THEN IF TrialShrinks(working_images(images)) THEN "compressed" ELSE "file_path"
    ELSE "base64"

\* ResultPut with a new name put in front.
ResultPut_front(result, name, desc) ==
    IF \E i \in 1..Len(result) : result[i].name = name
    THEN [i \in 1..Len(result) |->
            IF result[i].name = name THEN [name |-> name, value |-> desc] ELSE result[i]]
    ELSE <<[name |-> name, value |-> desc]>> \o result

\* result[name] = desc on the insertion-ordered result dict.
ResultPut(result, name, desc) ==
    IF \E i \in 1..Len(result) : result[i].name = name
    THEN [i \in 1..Len(result) |->
            IF result[i].name = name THEN [name |-> name, value |-> desc] ELSE result[i]]
    ELSE Append(result, [name |-> name, value |-> desc])

\* Response collapsing a dict as soon as one descriptor is base64.
Response_any(kind, result) ==
    IF kind = "dict"
    THEN IF \E i \in 1..Len(result) : result[i].value.type = "base64"
         THEN [kind |-> "dict",
               entries |-> [i \in 1..Len(result) |->
                              [name |-> result[i].name,
                               value |-> RawStr(result[i].value.data)]]]
         ELSE [kind |-> "dict", entries |-> result]
    ELSE [kind |-> "list",
          entries |-> [i \in 1..Len(result) |-> [name |-> "", value |-> result[i].value]]]

\* Response without the collapse of an all-base64 dict.
Response_wrapped(kind, result) ==
    IF kind = "dict" THEN [kind |-> "dict", entries |-> result]
    ELSE [kind |-> "list",
          entries |-> [i \in 1..Len(result) |-> [name |-> "", value |-> result[i].value]]]

\* The returned value: for a dict input the result dict, collapsed to
\* name -> raw payload when every descriptor is base64; for a list input
\* list(result.values()).
Response(kind, result) ==
    IF kind = "dict"
    THEN IF \A i \in 1..Len(result) : result[i].value.type = "base64"
         THEN [kind |-> "dict",
               entries |-> [i \in 1..Len(result) |->
                              [name |-> result[i].name,
                               value |-> RawStr(result[i].value.data)]]]
         ELSE [kind |-> "dict", entries |-> result]
    ELSE [kind |-> "list",
          entries |-> [i \in 1..Len(result) |-> [name |-> "", value |-> result[i].value]]]

(***************************************************************************)
(* State                                                                   *)
(***************************************************************************)

VARIABLES
    param,      \* normalizers: the raw value of the call
    default,    \* normalizers: the default of the call
    lv,         \* the logical value param expresses (<<>>: param is a raw text)
    shape,      \* the wire shape param expresses it in
    nop,        \* the normalizer that was applied ("": none yet)
    nres        \* its outcome

nvars == <<param, default, lv, shape, nop, nres>>

\* The callers of manage_response_size; each makes one call.
Procs == {"A", "B"}

VARIABLES
    _config,    \* the global configuration: "none", "env" (built by get_config
                \* from the environment) or "set" (given to set_config)
    fs,         \* the files that exist: a set of [dir, name, tok, bytes]
    dirs,       \* the directories that exist
    call,       \* per caller: the arguments [images, output_format, max_size, output_dir]
    pc,         \* per caller: "idle", "start", "loop", "save_open", "save_write",
                \* "done" (returned) or "raised"
    fmt,        \* per caller: the local output_format after the "auto" block
    wdir,       \* per caller: the local output_dir
    idx,        \* per caller: the position of the loop in working_images
    result,     \* per caller: the local result dict, as [name, value] in order
    cur,        \* per caller: the locals of save_image_to_file [file, bytes]
    clog,       \* per caller: the payloads handed to compress_base64_image,
                \* as <<phase, position in working_images>>
    ret         \* per caller: the value returned

mvars == <<_config, fs, dirs, call, pc, fmt, wdir, idx, result, cur, clog, ret>>

VARIABLES
    req,        \* render_single: the arguments of the call
    rpc,        \* its position: "idle", "start", "render" (validated),
                \* "manage" (in manage_response_size), "done" or "raised"
    rloc,       \* its locals after the normalizers
    rlog,       \* the calls of render_scad_to_png it made, with their arguments
    rret        \* the envelope it returned, or the exception it raised

rvars == <<req, rpc, rloc, rlog, rret>>

VARIABLES
    cfglog,     \* the calls of get_config and set_config so far, as
                \* <<"get", the Config returned>> or <<"set", the Config given>>
    built       \* the number of calls of Config.from_env()

vars == <<nvars, mvars, rvars, cfglog, built>>

\* The values of a caller that has not called, and of a call that has not
\* returned.
NoDir == <<>>

NoCall == [images |-> [kind |-> "dict", recs |-> <<>>], output_format |-> "",
           max_size |-> 0, output_dir |-> NoDir]

NoFile == [file |-> <<>>, bytes |-> <<>>]

NoRet == [kind |-> "none", entries |-> <<>>]

\* render_single is not called.
RenderIdle ==
    /\ req = <<>>
    /\ rpc = "idle"
    /\ rloc = <<>>
    /\ rlog = <<>>
    /\ rret = <<>>

(***************************************************************************)
(* Inputs of the normalizers                                               *)
(***************************************************************************)

\* Image dimensions range over MinDim..MaxDim, camera coordinates over the
\* integers -MaxCoord..MaxCoord and the halves between them.
MaxDim == 11
MaxCoord == 1

Dims == {IntSc(n) : n \in -1..MaxDim}

Coords == {IntSc(n) : n \in (0 - MaxCoord)..MaxCoord}
            \cup {FloatSc(10 * n + 5, 1) : n \in (0 - MaxCoord)..(MaxCoord - 1)}

SizeShapes == {"list", "tuple", "WxH", "W,H", "[W, H]"}

CameraShapes == {"list", "dict", "[x, y, z]", "{x, y, z}"}

\* The raw value that expresses the logical value v in a wire shape.
Encode(sh, v) ==
    CASE sh = "list" -> ListV("param", v)
      [] sh = "tuple" -> TupleV("param", v)
      [] sh = "dict" -> DictV("param", <<KeyX, KeyY, KeyZ>>, v)
      [] sh = "WxH" -> StrV(NumText(v[1]) \o <<"x">> \o NumText(v[2]))
      [] sh = " W x H " ->
            StrV(<<" ">> \o NumText(v[1]) \o <<" ", "x", " ">> \o NumText(v[2]) \o <<" ">>)
      [] sh = "WXH" -> StrV(NumText(v[1]) \o <<"X">> \o NumText(v[2]))
      [] sh = "W,H" -> StrV(NumText(v[1]) \o <<",">> \o NumText(v[2]))
      [] sh \in {"[W, H]", "[x, y, z]"} -> StrV(DumpsList(v))
      [] sh = "{x, y, z}" -> StrV(DumpsXYZ(v))

\* Texts and values that express no image size or camera vector.
RawParams ==
    {StrV(<<"a", ",", "b", ",">>),
     StrV(<<"[", "1", ",", "2", ",", "3">>),
     StrV(<<"[", "1", ",", " ", "2", ",", " ", "3", "]">>),
     StrV(<<"f", "r", "o", "n", "t">>),
     StrV(<<>>),
     StrV(<<"x", "=", "1", "0", ",", "y", "=", "2", ".", "5", ",", "a", "=", "T", "r", "u", "e">>),
     StrV(<<"k", "=">>),
     StrV(<<"{", "k", ":", " ", "v">>),
     StrV(<<"{", "k", "=", "v">>),
     StrV(<<"{", "\"", "k", "\"", ":", " ", "n", "u", "l", "l", "}">>),
     StrV(<<" ", "1", "9", " ", "x", " ", "1", "0", " ">>),
     StrV(<<"8", "X", "6">>),
     StrV(<<"[", "8", "]">>),
     StrV(<<"8", "x", "6", "x", "4">>),
     StrV(<<"8", ",", "6", ",", "4">>),
     StrV(<<"[", "8", ",", " ", "6", ",", " ", "4", "]">>),
     StrV(<<"8">>),
     StrV(<<"{", "\"", "z", "\"", ":", " ", "3", ",", " ", "\"", "x", "\"", ":", " ", "1", ",", " ", "\"", "y", "\"", ":", " ", "2", "}">>),
     StrV(<<"{", "\"", "x", "\"", ":", " ", "1", ",", " ", "\"", "y", "\"", ":", " ", "2", "}">>),
     StrV(<<"[", "1", ",", " ", "2", "]">>),
     TupleV("param", <<IntSc(8)>>),
     TupleV("param", <<IntSc(8), IntSc(6), IntSc(4)>>),
     DictV("param", <<KeyZ, KeyX, KeyY>>, <<IntSc(3), IntSc(1), IntSc(2)>>),
     StrV(<<"a", "=", "1", ",", "b", ",", "c", "=", "f", "a", "l", "s", "e">>),
     StrV(<<" ", "a", " ", "=", " ", "1", " ", ",", " ", "b", "=", " ", "x", " ">>),
     StrV(<<"a", "=", "1", ",", "a", "=", "2">>),
     StrV(<<"a", "=", "b", "=", "c", ",", "v", "=", "1", ".", "2", ".", "3">>),
     StrV(<<"n", "=", "-", "3", ",", "f", "=", "-", ".", "5", ",", "e", "=">>),
     StrV(<<"{", "k", "=", "7", "}">>),
     StrV(<<" ", "a", " ", ",", " ", ",", "b", " ">>),
     StrV(<<" ", "s", "o", "l", "o", " ">>),
     StrV(<<" ", " ", " ">>),
     StrV(<<"[", "\"", "a", "\"", ",", " ", "6", "]">>),
     StrV(<<"[", "n", "u", "l", "l", ",", " ", "6", "]">>),
     ListV("param", <<IntSc(8)>>),
     ListV("param", <<IntSc(8), IntSc(6), IntSc(4)>>),
     ListV("param", <<FloatSc(85, 1), FloatSc(69, 1)>>),
     ListV("param", <<StrSc(<<"a">>), NullSc>>),
     DictV("param", <<KeyX, KeyY>>, <<IntSc(1), IntSc(2)>>),
     IntV(12345)}

Defaults ==
    {ListV("default", <<>>),
     ListV("default", <<IntSc(1024), IntSc(768)>>),
     DictV("default", <<KeyX>>, <<StrSc(<<"a">>)>>)}

\* manage_response_size is not called.
MgrIdle ==
    /\ _config = "none"
    /\ cfglog = <<>>
    /\ built = 0
    /\ fs = {}
    /\ dirs = {}
    /\ call = [q \in Procs |-> NoCall]
    /\ pc = [q \in Procs |-> "idle"]
    /\ fmt = [q \in Procs |-> ""]
    /\ wdir = [q \in Procs |-> NoDir]
    /\ idx = [q \in Procs |-> 0]
    /\ result = [q \in Procs |-> <<>>]
    /\ cur = [q \in Procs |-> NoFile]
    /\ clog = [q \in Procs |-> <<>>]
    /\ ret = [q \in Procs |-> NoRet]

InitNorm ==
    /\ MgrIdle
    /\ RenderIdle
    /\ default \in Defaults
    /\ \/ /\ shape = "none" /\ lv = <<>> /\ param = NoneV
       \/ /\ shape = "raw" /\ lv = <<>> /\ param \in RawParams
       \/ /\ shape \in SizeShapes
          /\ lv \in Dims \X Dims
          /\ param = Encode(shape, lv)
       \/ /\ shape \in {" W x H ", "WXH"}
          /\ lv \in Dims \X Dims
          /\ param = Encode(shape, lv)
       \/ /\ shape \in CameraShapes
          /\ lv \in Coords \X Coords \X Coords
          /\ param = Encode(shape, lv)
    /\ nop = ""
    /\ nres = Ret(NoneV)

(***************************************************************************)
(* One action per normalizer: the call on the state's inputs               *)
(***************************************************************************)

ParseCamera ==
    /\ nop = ""
    /\ nop' = "parse_camera_param"
    /\ nres' = parse_camera_param(param, default)
    /\ UNCHANGED <<param, default, lv, shape>>
    /\ UNCHANGED <<mvars, rvars, cfglog, built>>

ParseImageSize ==
    /\ nop = ""
    /\ nop' = "parse_image_size_param"
    /\ nres' = parse_image_size_param(param, default)
    /\ UNCHANGED <<param, default, lv, shape>>
    /\ UNCHANGED <<mvars, rvars, cfglog, built>>

ParseList ==
    /\ nop = ""
    /\ nop' = "parse_list_param"
    /\ nres' = parse_list_param(param, default)
    /\ UNCHANGED <<param, default, lv, shape>>
    /\ UNCHANGED <<mvars, rvars, cfglog, built>>

ParseDict ==
    /\ nop = ""
    /\ nop' = "parse_dict_param"
    /\ nres' = parse_dict_param(param, default)
    /\ UNCHANGED <<param, default, lv, shape>>
    /\ UNCHANGED <<mvars, rvars, cfglog, built>>

NextNorm == ParseCamera \/ ParseImageSize \/ ParseList \/ ParseDict

(***************************************************************************)
(* The response size manager                                               *)
(***************************************************************************)

\* At most MaxImages images per call.
MaxImages == 2

DictNames == <<"front", "top", "side", "back">>

\* uuid.uuid4().hex[:8]
Tokens == {"0000aaaa", "1111bbbb"}

OutDirs == {NoDir, <<"out">>}

OutputFormats == {"auto", "base64", "file_path", "compressed", "png"}

\* Budgets around the estimates of the model's payload sets, and the default.
Budgets == {-1, 4, 13, 25000}

TempDir(c) == IF c = "set" THEN "custom" ELSE ".openscad-mcp/tmp"

ImageSets ==
    UNION {[kind : {"dict", "list"},
            recs : {rs \in [1..n -> [name : {""}, data : Payloads]] : TRUE}] : n \in 0..MaxImages}

\* The images of a call: a dict names its k images by the first k of
\* DictNames, a list leaves them unnamed.
Named(images) ==
    [images EXCEPT !.recs =
        [i \in 1..Len(images.recs) |->
            [name |-> IF images.kind = "dict" THEN DictNames[i] ELSE "",
             data |-> images.recs[i].data]]]

\* A file left by an earlier call.
StaleFile == [dir |-> <<"out">>, name |-> "front", tok |-> "0000aaaa", bytes |-> <<9>>]

\* No normalizer is called.
NormIdle ==
    /\ param = NoneV
    /\ default = ListV("default", <<>>)
    /\ lv = <<>>
    /\ shape = "none"
    /\ nop = "idle"
    /\ nres = Ret(NoneV)

\* The budget is varied under "auto", the one format that reads it; the
\* configuration under the default output directory, which reads it; and a
\* file of an earlier call may lie in the directory the caller names.
InitMgr ==
    /\ NormIdle
    /\ RenderIdle
    /\ \E im \in ImageSets, f \in OutputFormats, m \in Budgets, d \in OutDirs :
          /\ f # "auto" => m = 25000
          /\ call = [q \in Procs |->
                       IF q = "A"
                       THEN [images |-> Named(im), output_format |-> f,
                             max_size |-> m, output_dir |-> d]
                       ELSE NoCall]
          /\ _config \in IF d = NoDir THEN {"none", "set"} ELSE {"none"}
          /\ cfglog = IF _config = "set" THEN <<<<"set", "set">>>> ELSE <<>>
          /\ built = 0
          /\ \/ fs = {} /\ dirs = {}
             \/ d # NoDir /\ fs = {StaleFile} /\ dirs = {<<"out">>}
    /\ pc = [q \in Procs |-> IF q = "A" THEN "start" ELSE "idle"]
    /\ fmt = [q \in Procs |-> ""]
    /\ wdir = [q \in Procs |-> NoDir]
    /\ idx = [q \in Procs |-> 0]
    /\ result = [q \in Procs |-> <<>>]
    /\ cur = [q \in Procs |-> NoFile]
    /\ clog = [q \in Procs |-> <<>>]
    /\ ret = [q \in Procs |-> NoRet]

\* W with the images in the reverse of the input order.
W_reversed(p) ==
    [i \in 1..Len(call[p].images.recs) |->
        working_images(call[p].images)[Len(call[p].images.recs) + 1 - i]]

W(p) == working_images(call[p].images)

\* Lines 527-570: get_config(), the default output directory, working_images
\* and the "auto" block with its trial compression.
Begin(p) ==
    /\ pc[p] = "start"
    /\ _config' = IF _config = "none" THEN "env" ELSE _config
    /\ wdir' = [wdir EXCEPT ![p] =
                  IF call[p].output_dir = NoDir THEN <<TempDir(_config'), "renders">>
                  ELSE call[p].output_dir]
    /\ fmt' = [fmt EXCEPT ![p] =
                 ResolveFormat(call[p].images, call[p].output_format, call[p].max_size)]
    /\ clog' = [clog EXCEPT ![p] =
                  IF /\ call[p].output_format = "auto"
                     /\ estimate_response_size(call[p].images) > call[p].max_size
                  THEN [i \in 1..Len(TrialImages(W(p))) |-> <<"trial", i>>]
                  ELSE <<>>]
    /\ idx' = [idx EXCEPT ![p] = 1]
    /\ pc' = [pc EXCEPT ![p] = "loop"]
    /\ cfglog' = Append(cfglog, <<"get", _config'>>)
    /\ built' = IF _config = "none" THEN built + 1 ELSE built
    /\ UNCHANGED <<fs, dirs, call, result, cur, ret>>
    /\ UNCHANGED <<nvars, rvars>>

InLoop(p) == pc[p] = "loop" /\ idx[p] <= Len(W(p))

\* save_image_to_file up to the decoding: the file name with its random
\* token, mkdir(parents=True, exist_ok=True), which the file system may
\* refuse, and b64decode, which raises on a payload that does not decode.
SaveBegin(p) ==
    /\ InLoop(p)
    /\ fmt[p] = "file_path"
    /\ \E tok \in Tokens, mkdir_ok \in BOOLEAN :
          LET d == b64decode(W(p)[idx[p]].data)
          IN  /\ dirs' = IF mkdir_ok THEN dirs \cup {wdir[p]} ELSE dirs
              /\ IF mkdir_ok /\ d.ok
                 THEN /\ cur' = [cur EXCEPT ![p] =
                                   [file |-> <<W(p)[idx[p]].name, tok>>, bytes |-> d.bytes]]
                      /\ pc' = [pc EXCEPT ![p] = "save_open"]
                 ELSE /\ cur' = cur
                      /\ pc' = [pc EXCEPT ![p] = "raised"]
    /\ UNCHANGED <<_config, fs, call, fmt, wdir, idx, result, clog, ret>>
    /\ UNCHANGED <<nvars, rvars, cfglog, built>>

\* FileOf of a file that is opened and never written.
FileOf_empty(p, bytes) ==
    [dir |-> wdir[p], name |-> cur[p].file[1], tok |-> cur[p].file[2], bytes |-> <<>>]

FileOf(p, bytes) ==
    [dir |-> wdir[p], name |-> cur[p].file[1], tok |-> cur[p].file[2], bytes |-> bytes]

\* SamePath of any two files of one directory.
SamePath_any_name(f, g) == f.dir = g.dir

SamePath(f, g) == f.dir = g.dir /\ f.name = g.name /\ f.tok = g.tok

\* open(file_path, "wb"): the file is created or truncated, unless the file
\* system refuses.
SaveOpen(p) ==
    /\ pc[p] = "save_open"
    /\ \E open_ok \in BOOLEAN :
          IF open_ok /\ wdir[p] \in dirs
          THEN /\ fs' = {f \in fs : ~SamePath(f, FileOf(p, <<>>))} \cup {FileOf(p, <<>>)}
               /\ pc' = [pc EXCEPT ![p] = "save_write"]
          ELSE /\ fs' = fs
               /\ pc' = [pc EXCEPT ![p] = "raised"]
    /\ UNCHANGED <<_config, dirs, call, fmt, wdir, idx, result, cur, clog, ret>>
    /\ UNCHANGED <<nvars, rvars, cfglog, built>>

\* The descriptor of a saved file.
FilePathDesc(p) == FileDesc([dir |-> wdir[p], name |-> cur[p].file[1], tok |-> cur[p].file[2]])

\* f.write(image_data) and the return of the path; back in the loop, the
\* file_path descriptor.  A failed write leaves the file as it is.
SaveWrite(p) ==
    /\ pc[p] = "save_write"
    /\ \E write_ok \in BOOLEAN :
          IF write_ok
          THEN /\ fs' = {f \in fs : ~SamePath(f, FileOf(p, <<>>))}
                          \cup {FileOf(p, cur[p].bytes)}
               /\ result' = [result EXCEPT ![p] =
                               ResultPut(result[p], W(p)[idx[p]].name, FilePathDesc(p))]
               /\ idx' = [idx EXCEPT ![p] = idx[p] + 1]
               /\ pc' = [pc EXCEPT ![p] = "loop"]
          ELSE /\ pc' = [pc EXCEPT ![p] = "raised"]
               /\ UNCHANGED <<fs, result, idx>>
    /\ cur' = [cur EXCEPT ![p] = NoFile]
    /\ UNCHANGED <<_config, dirs, call, fmt, wdir, clog, ret>>
    /\ UNCHANGED <<nvars, rvars, cfglog, built>>

\* The descriptor of the "compressed" branch: compressed, or the original
\* when compress_base64_image raises.
CompressedOrInline(data) ==
    IF compress_base64_image(data).ok
    THEN CompressedDesc(compress_base64_image(data).data, data)
    ELSE InlineDesc(data)

CompressImage(p) ==
    /\ InLoop(p)
    /\ fmt[p] = "compressed"
    /\ result' = [result EXCEPT ![p] =
                    ResultPut(result[p], W(p)[idx[p]].name,
                              CompressedOrInline(W(p)[idx[p]].data))]
    /\ clog' = [clog EXCEPT ![p] = Append(clog[p], <<"compressed", idx[p]>>)]
    /\ idx' = [idx EXCEPT ![p] = idx[p] + 1]
    /\ UNCHANGED <<_config, fs, dirs, call, pc, fmt, wdir, cur, ret>>
    /\ UNCHANGED <<nvars, rvars, cfglog, built>>

\* The else branch of the loop, taken by every other output format.
InlineImage(p) ==
    /\ InLoop(p)
    /\ fmt[p] \notin {"file_path", "compressed"}
    /\ result' = [result EXCEPT ![p] =
                    ResultPut(result[p], W(p)[idx[p]].name, InlineDesc(W(p)[idx[p]].data))]
    /\ idx' = [idx EXCEPT ![p] = idx[p] + 1]
    /\ UNCHANGED <<_config, fs, dirs, call, pc, fmt, wdir, cur, clog, ret>>
    /\ UNCHANGED <<nvars, rvars, cfglog, built>>

\* Lines 613-620: the return.
Return(p) ==
    /\ pc[p] = "loop"
    /\ idx[p] > Len(W(p))
    /\ ret' = [ret EXCEPT ![p] = Response(call[p].images.kind, result[p])]
    /\ pc' = [pc EXCEPT ![p] = "done"]
    /\ UNCHANGED <<_config, fs, dirs, call, fmt, wdir, idx, result, cur, clog>>
    /\ UNCHANGED <<nvars, rvars, cfglog, built>>

NextMgr ==
    \E p \in Procs :
        \/ Begin(p)
        \/ SaveBegin(p)
        \/ SaveOpen(p)
        \/ SaveWrite(p)
        \/ CompressImage(p)
        \/ InlineImage(p)
        \/ Return(p)

\* The normalizers, each applied once to an input of InitNorm.
SpecNorm == InitNorm /\ [][NextNorm]_vars

\* One call of manage_response_size on the inputs of InitMgr.
SpecMgr == InitMgr /\ [][NextMgr]_vars

\* Two callers at once, as parallel renders make them: each passes one image
\* under the same name and the same output directory; the second asks for
\* files, the first for any of the formats.
InitConc ==
    /\ NormIdle
    /\ RenderIdle
    /\ \E fa \in {"file_path", "compressed", "base64"}, da \in Payloads, db \in Payloads :
          call = [q \in Procs |->
                    [images |-> Named([kind |-> "dict",
                                       recs |-> <<[name |-> "",
                                                   data |-> IF q = "A" THEN da ELSE db]>>]),
                     output_format |-> IF q = "A" THEN fa ELSE "file_path",
                     max_size |-> 25000,
                     output_dir |-> <<"out">>]]
    /\ _config = "none"
    /\ cfglog = <<>>
    /\ built = 0
    /\ fs = {}
    /\ dirs = {}
    /\ pc = [q \in Procs |-> "start"]
    /\ fmt = [q \in Procs |-> ""]
    /\ wdir = [q \in Procs |-> NoDir]
    /\ idx = [q \in Procs |-> 0]
    /\ result = [q \in Procs |-> <<>>]
    /\ cur = [q \in Procs |-> NoFile]
    /\ clog = [q \in Procs |-> <<>>]
    /\ ret = [q \in Procs |-> NoRet]

\* Two concurrent calls of manage_response_size, their steps interleaved.
SpecConc == InitConc /\ [][NextMgr]_vars

(***************************************************************************)
(* render_single                                                           *)
(***************************************************************************)

\* The presets in the order of the dict: name, camera position, target, up.
VIEW_PRESETS ==
    <<[name |-> "front",     pos |-> <<0, -200, 0>>,    target |-> <<0, 0, 0>>, up |-> <<0, 0, 1>>],
      [name |-> "back",      pos |-> <<0, 200, 0>>,     target |-> <<0, 0, 0>>, up |-> <<0, 0, 1>>],
      [name |-> "left",      pos |-> <<-200, 0, 0>>,    target |-> <<0, 0, 0>>, up |-> <<0, 0, 1>>],
      [name |-> "right",     pos |-> <<200, 0, 0>>,     target |-> <<0, 0, 0>>, up |-> <<0, 0, 1>>],
      [name |-> "top",       pos |-> <<0, 0, 200>>,     target |-> <<0, 0, 0>>, up |-> <<0, 1, 0>>],
      [name |-> "bottom",    pos |-> <<0, 0, -200>>,    target |-> <<0, 0, 0>>, up |-> <<0, -1, 0>>],
      [name |-> "isometric", pos |-> <<200, 200, 200>>, target |-> <<0, 0, 0>>, up |-> <<0, 0, 1>>],
      [name |-> "dimetric",  pos |-> <<200, 100, 200>>, target |-> <<0, 0, 0>>, up |-> <<0, 0, 1>>]>>

\* Validated raising only when neither source is given.
Validated_either(r, pos, tgt, up, size, vs) ==
    LET known == \E i \in 1..Len(VIEW_PRESETS) : VIEW_PRESETS[i].name = r.view
        preset == VIEW_PRESETS[CHOOSE i \in 1..Len(VIEW_PRESETS) : VIEW_PRESETS[i].name = r.view]
        AsList(t) == ListV(FreshId, [i \in 1..3 |-> IntSc(t[i])])
    IN  IF r.scad_content = "" /\ r.scad_file = ""
        THEN Raise("ValueError", "Exactly one of scad_content or scad_file must be provided",
                   0, <<>>)
        ELSE IF r.view # "" /\ ~known
        THEN Raise("ValueError", "Invalid view name. Must be one of", 0,
                   <<r.view>> \o [i \in 1..Len(VIEW_PRESETS) |-> VIEW_PRESETS[i].name])
        ELSE IF r.view = "" /\ pos.st = "raise" THEN pos
        ELSE IF r.view = "" /\ tgt.st = "raise" THEN tgt
        ELSE IF r.view = "" /\ up.st = "raise" THEN up
        ELSE IF size.st = "raise" THEN size
        ELSE IF vs.st = "raise" THEN vs
        ELSE [st |-> "ok",
              scad_content |-> r.scad_content,
              scad_file |-> r.scad_file,
              camera_position |-> IF r.view # "" THEN AsList(preset.pos) ELSE pos.val,
              camera_target |-> IF r.view # "" THEN AsList(preset.target) ELSE tgt.val,
              camera_up |-> IF r.view # "" THEN AsList(preset.up) ELSE up.val,
              image_size |-> size.val,
              variables |-> vs.val,
              auto_center |-> IF r.view # "" THEN TRUE ELSE r.auto_center]

\* Validated leaving auto_center as the caller gave it.
Validated_keeps_auto_center(r, pos, tgt, up, size, vs) ==
    LET known == \E i \in 1..Len(VIEW_PRESETS) : VIEW_PRESETS[i].name = r.view
        preset == VIEW_PRESETS[CHOOSE i \in 1..Len(VIEW_PRESETS) : VIEW_PRESETS[i].name = r.view]
        AsList(t) == ListV(FreshId, [i \in 1..3 |-> IntSc(t[i])])
    IN  IF (r.scad_content # "") = (r.scad_file # "")
        THEN Raise("ValueError", "Exactly one of scad_content or scad_file must be provided",
                   0, <<>>)
        ELSE IF r.view # "" /\ ~known
        THEN Raise("ValueError", "Invalid view name. Must be one of", 0,
                   <<r.view>> \o [i \in 1..Len(VIEW_PRESETS) |-> VIEW_PRESETS[i].name])
        ELSE IF r.view = "" /\ pos.st = "raise" THEN pos
        ELSE IF r.view = "" /\ tgt.st = "raise" THEN tgt
        ELSE IF r.view = "" /\ up.st = "raise" THEN up
        ELSE IF size.st = "raise" THEN size
        ELSE IF vs.st = "raise" THEN vs
        ELSE [st |-> "ok",
              scad_content |-> r.scad_content,
              scad_file |-> r.scad_file,
              camera_position |-> IF r.view # "" THEN AsList(preset.pos) ELSE pos.val,
              camera_target |-> IF r.view # "" THEN AsList(preset.target) ELSE tgt.val,
              camera_up |-> IF r.view # "" THEN AsList(preset.up) ELSE up.val,
              image_size |-> size.val,
              variables |-> vs.val,
              auto_center |-> r.auto_center]

\* Lines 672-708: the source check, the view and the normalizers, given the
\* outcomes of the normalizers on the raw arguments.  A str argument is a
\* string here, "" standing for None and for the empty text alike: bool() is
\* all that render_single and the renderer read of it.  list(preset) is a
\* new list of the preset's ints.
Validated(r, pos, tgt, up, size, vs) ==
    LET known == \E i \in 1..Len(VIEW_PRESETS) : VIEW_PRESETS[i].name = r.view
        preset == VIEW_PRESETS[CHOOSE i \in 1..Len(VIEW_PRESETS) : VIEW_PRESETS[i].name = r.view]
        AsList(t) == ListV(FreshId, [i \in 1..3 |-> IntSc(t[i])])
    IN  IF (r.scad_content # "") = (r.scad_file # "")
        THEN Raise("ValueError", "Exactly one of scad_content or scad_file must be provided",
                   0, <<>>)
        ELSE IF r.view # "" /\ ~known
        THEN Raise("ValueError", "Invalid view name. Must be one of", 0,
                   <<r.view>> \o [i \in 1..Len(VIEW_PRESETS) |-> VIEW_PRESETS[i].name])
        ELSE IF r.view = "" /\ pos.st = "raise" THEN pos
        ELSE IF r.view = "" /\ tgt.st = "raise" THEN tgt
        ELSE IF r.view = "" /\ up.st = "raise" THEN up
        ELSE IF size.st = "raise" THEN size
        ELSE IF vs.st = "raise" THEN vs
        ELSE [st |-> "ok",
              scad_content |-> r.scad_content,
              scad_file |-> r.scad_file,
              camera_position |-> IF r.view # "" THEN AsList(preset.pos) ELSE pos.val,
              camera_target |-> IF r.view # "" THEN AsList(preset.target) ELSE tgt.val,
              camera_up |-> IF r.view # "" THEN AsList(preset.up) ELSE up.val,
              image_size |-> size.val,
              variables |-> vs.val,
              auto_center |-> IF r.view # "" THEN TRUE ELSE r.auto_center]

\* str(uuid.uuid4())
OperationIds == {"op-1", "op-2"}

\* Envelope with the keys of the descriptor alone.
Envelope_bare(success, desc, own, error, id, output_format) ==
    [success |-> success,
     fields |-> desc.fields,
     type |-> desc.type,
     data |-> desc.data,
     path |-> desc.path,
     ratio |-> desc.ratio,
     mime_type |-> IF "mime_type" \in desc.fields \cup own THEN "image/png" ELSE "",
     error |-> error,
     operation_id |-> id,
     output_format |-> output_format]

\* The dict render_single returns: the keys in fields, which are those of the
\* descriptor it spreads and its own; every descriptor's mime_type is
\* "image/png".
Envelope(success, desc, own, error, id, output_format) ==
    [success |-> success,
     fields |-> desc.fields \cup own,
     type |-> desc.type,
     data |-> desc.data,
     path |-> desc.path,
     ratio |-> desc.ratio,
     mime_type |-> IF "mime_type" \in desc.fields \cup own THEN "image/png" ELSE "",
     error |-> error,
     operation_id |-> id,
     output_format |-> output_format]

\* Lines 672-708: an exception of the checks leaves render_single.
Validate ==
    /\ rpc = "start"
    /\ LET v == Validated(req,
                          parse_camera_param(req.camera_position,
                              ListV("default", <<IntSc(70), IntSc(70), IntSc(70)>>)),
                          parse_camera_param(req.camera_target,
                              ListV("default", <<IntSc(0), IntSc(0), IntSc(0)>>)),
                          parse_camera_param(req.camera_up,
                              ListV("default", <<IntSc(0), IntSc(0), IntSc(1)>>)),
                          parse_image_size_param(req.image_size,
                              ListV("default", <<IntSc(800), IntSc(600)>>)),
                          parse_dict_param(req.variables, DictV("default", <<>>, <<>>)))
       IN  IF v.st = "ok"
           THEN rloc' = v /\ rpc' = "render" /\ rret' = rret
           ELSE rret' = v /\ rpc' = "raised" /\ rloc' = rloc
    /\ UNCHANGED <<req, rlog>>
    /\ UNCHANGED <<nvars, mvars, cfglog, built>>

\* Lines 710-737 and 751-766: render_scad_to_png is called on the locals.  It
\* fails before get_config (OpenSCAD is not found), or after it (the temp
\* directory, the file, the run), or returns the base64 text of the bytes
\* OpenSCAD wrote.  Its exception becomes the failure envelope; its image
\* goes to manage_response_size as {"render": image_data}, or, under
\* "base64" or no output format, into the default envelope.
Invoke ==
    /\ rpc = "render"
    /\ rlog' = Append(rlog, rloc)
    /\ \E id \in OperationIds :
          \/ /\ rret' = Envelope(FALSE, Desc("", <<>>, NoPath, NoRatio, {}),
                                 {"success", "error", "operation_id"},
                                 "OpenSCAD not found. Please install OpenSCAD first.", id, "")
             /\ rpc' = "done"
             /\ UNCHANGED <<_config, call, pc, cfglog, built>>
          \/ /\ _config' = IF _config = "none" THEN "env" ELSE _config
             /\ cfglog' = Append(cfglog, <<"get", _config'>>)
             /\ built' = IF _config = "none" THEN built + 1 ELSE built
             /\ rret' = Envelope(FALSE, Desc("", <<>>, NoPath, NoRatio, {}),
                                 {"success", "error", "operation_id"},
                                 "OpenSCAD rendering failed: ", id, "")
             /\ rpc' = "done"
             /\ UNCHANGED <<call, pc>>
          \/ /\ _config' = IF _config = "none" THEN "env" ELSE _config
             /\ cfglog' = Append(cfglog, <<"get", _config'>>)
             /\ built' = IF _config = "none" THEN built + 1 ELSE built
             /\ \E image_data \in {Raw, PngGood, PngEdge} :
                   IF req.output_format \notin {"", "base64"}
                   THEN /\ call' = [call EXCEPT !["A"] =
                                      [images |-> [kind |-> "dict",
                                                   recs |-> <<[name |-> "render",
                                                               data |-> image_data]>>],
                                       output_format |-> req.output_format,
                                       max_size |-> 20000,
                                       output_dir |-> NoDir]]
                        /\ pc' = [pc EXCEPT !["A"] = "start"]
                        /\ rpc' = "manage"
                        /\ rret' = rret
                   ELSE /\ rret' = Envelope(TRUE, Desc("", image_data, NoPath, NoRatio, {}),
                                            {"success", "data", "mime_type", "operation_id"},
                                            "", id, "")
                        /\ rpc' = "done"
                        /\ UNCHANGED <<call, pc>>
    /\ UNCHANGED <<req, rloc>>
    /\ UNCHANGED <<fs, dirs, fmt, wdir, idx, result, cur, clog, ret>>
    /\ UNCHANGED nvars

\* Lines 738-766: manage_response_size has returned or raised.  A descriptor
\* under "render" is spread into the envelope; a raw payload there leaves the
\* default envelope with image_data; an exception the failure envelope.
Finish ==
    /\ rpc = "manage"
    /\ pc["A"] \in {"done", "raised"}
    /\ \E id \in OperationIds :
          rret' =
            IF pc["A"] = "raised"
            THEN Envelope(FALSE, Desc("", <<>>, NoPath, NoRatio, {}),
                          {"success", "error", "operation_id"},
                          "Failed to save image to file: ", id, "")
            ELSE IF ret["A"].entries[1].value.type # "str"
            THEN Envelope(TRUE, ret["A"].entries[1].value,
                          {"success", "operation_id", "output_format"}, "", id,
                          IF req.output_format # "auto" THEN req.output_format
                          ELSE "optimized")
            ELSE Envelope(TRUE, Desc("", call["A"].images.recs[1].data, NoPath, NoRatio, {}),
                          {"success", "data", "mime_type", "operation_id"}, "", id, "")
    /\ rpc' = "done"
    /\ UNCHANGED <<req, rloc, rlog>>
    /\ UNCHANGED <<nvars, mvars, cfglog, built>>

\* The calls of render_single of the model: the sources given or not, a view
\* of the table, none or an unknown one, camera vectors absent, in three
\* shapes or malformed, an image size and variables absent, well-formed or
\* malformed, and every output format, "" being None.
InitRender ==
    /\ NormIdle
    /\ MgrIdle
    /\ \E sc \in {"", "cube(10);"}, sf \in {"", "model.scad"},
          vw \in {"", "top", "bottom", "sideways"},
          cam \in {<<NoneV, NoneV, NoneV>>,
                   <<StrV(<<"[", "1", ",", " ", "2", ",", " ", "3", "]">>),
                     DictV("param", <<KeyX, KeyY, KeyZ>>, <<IntSc(0), IntSc(0), IntSc(5)>>),
                     ListV("param", <<IntSc(0), IntSc(1), IntSc(0)>>)>>,
                   <<StrV(<<"f", "r", "o", "n", "t">>), NoneV, NoneV>>,
                   <<NoneV, NoneV, ListV("param", <<IntSc(0), IntSc(1)>>)>>},
          sz \in {NoneV, StrV(<<"8", "x", "6">>), ListV("param", <<IntSc(8)>>)},
          vs \in {NoneV, StrV(<<"x", "=", "1", "0", ",", "a", "=", "T", "r", "u", "e">>),
                  IntV(12345)},
          ac \in BOOLEAN, f \in OutputFormats \cup {""} :
          req = [scad_content |-> sc, scad_file |-> sf, view |-> vw,
                 camera_position |-> cam[1], camera_target |-> cam[2], camera_up |-> cam[3],
                 image_size |-> sz, variables |-> vs, auto_center |-> ac,
                 output_format |-> f]
    /\ rpc = "start"
    /\ rloc = <<>>
    /\ rlog = <<>>
    /\ rret = <<>>

NextRender == Validate \/ Invoke \/ NextMgr \/ Finish

\* One call of render_single on the inputs of InitRender.
SpecRender == InitRender /\ [][NextRender]_vars

(***************************************************************************)
(* Properties of the normalizers (SpecNorm)                                *)
(***************************************************************************)

\* A normalizer has been applied to the state's inputs.
Applied == nop \notin {"", "idle"}

\* C1: each of the four normalizers, called with an absent raw value (None),
\* returns the very object passed as default, the same identity and not a
\* copy, whatever the default is: it is neither validated nor transformed.
C1_AbsentReturnsDefault ==
    (Applied /\ param = NoneV) => (nres = Ret(default) /\ nres.val.id = "default")

\* parse_camera_param has returned a mapping default, which is no camera
\* vector, as it is.
C1_Witness ==
    /\ nop = "parse_camera_param"
    /\ param = NoneV
    /\ default.t = "dict"
    /\ nres.st = "ok"
    /\ nres.val = default

\* [float(x), float(y), float(z)] of a logical camera vector.
CanonicalCamera(v) == ListV(FreshId, [i \in 1..3 |-> FloatSc(v[i].n, v[i].e)])

\* C2: every accepted wire shape of one logical value normalizes to the same
\* output: for integers W, H the shapes [W, H], (W, H), "WxH", "W,H" and
\* "[W, H]" give the parse_image_size_param result that the list shape gives,
\* the fresh list [W, H]; for numbers x, y, z the list, the mapping, the JSON
\* array text and the JSON object text give the parse_camera_param result
\* that the list shape gives, the fresh list of the three floats.
C2_ShapesAgree ==
    /\ (nop = "parse_image_size_param" /\ shape \in SizeShapes /\ Len(lv) = 2) =>
          /\ nres = parse_image_size_param(Encode("list", lv), default)
          /\ nres = Ret(ListV(FreshId, lv))
    /\ (nop = "parse_camera_param" /\ shape \in CameraShapes /\ Len(lv) = 3) =>
          /\ nres = parse_camera_param(Encode("list", lv), default)
          /\ nres = Ret(CanonicalCamera(lv))

\* The text "11,7" has been normalized to [11, 7].
C2_Witness ==
    /\ nop = "parse_image_size_param"
    /\ shape = "W,H"
    /\ lv = <<IntSc(MaxDim), IntSc(7)>>
    /\ param.t = "str"
    /\ nres = Ret(ListV(FreshId, lv))


\* The stripped text of a str argument.
Text == Strip(param.chars)

HasEq(x) == Contains(x, "=")

\* The key=value segments of a text: its comma-separated parts, stripped,
\* that contain "=".
Segments(s) == SelectSeq([i \in 1..Len(Split(s, ",")) |-> Strip(Split(s, ",")[i])], HasEq)

FirstEq(x) == CHOOSE i \in 1..Len(x) : x[i] = "=" /\ \A j \in 1..(i - 1) : x[j] # "="

SegKey(x) == Strip(SubSeq(x, 1, FirstEq(x) - 1))

SegValue(x) == Strip(SubSeq(x, FirstEq(x) + 1, Len(x)))

\* The coercion as the claim orders it.
RefCoerce(v) ==
    IF StrIsInt(v) THEN IntSc(StrInt(v))
    ELSE IF Contains(v, ".") /\ StrIsFloat(v) THEN StrFloat(v)
    ELSE IF Lower(v) \in {<<"t", "r", "u", "e">>, <<"f", "a", "l", "s", "e">>}
    THEN BoolSc(Lower(v) = <<"t", "r", "u", "e">>)
    ELSE StrSc(v)

BraceFailure ==
    /\ nop = "parse_dict_param"
    /\ param.t = "str"
    /\ StartsWith(Text, "{")
    /\ ~JsonLoads(Text).ok

\* C19 as stated: for every string that starts with "{" and whose JSON
\* decode fails, parse_dict_param raises: it never falls back to the
\* key=value splitting and never returns a mapping, even when the string
\* contains "=".
C19_BraceFailureRaises == BraceFailure => nres.st = "raise"

\* C19, amended: for a string that starts with "{" and whose JSON decode
\* fails, parse_dict_param raises ValueError exactly when the string has no
\* "="; when it has one, the string goes through the key=value splitting and
\* a new mapping is returned.
C19_BraceFailureRaisesWithoutEq ==
    BraceFailure =>
        IF HasEq(Text)
        THEN /\ nres.st = "ok"
             /\ nres.val.t = "dict"
             /\ nres.val.id = FreshId
             /\ {nres.val.keys[i] : i \in 1..Len(nres.val.keys)}
                    = {SegKey(Segments(Text)[i]) : i \in 1..Len(Segments(Text))}
        ELSE /\ nres.st = "raise"
             /\ nres.exc = "ValueError"
             /\ nres.msg = "Cannot parse dict from type"

\* "{k=7}" does not decode and has "=": the mapping {"{k": "7}"} is returned.
C19_Witness ==
    /\ BraceFailure
    /\ param = StrV(<<"{", "k", "=", "7", "}">>)
    /\ nres = Ret(DictV(FreshId, <<<<"{", "k">>>>, <<StrSc(<<"7", "}">>)>>))

\* The parts of a comma-separated text that are not empty after trimming,
\* trimmed, in their order.
RECURSIVE KeptParts(_)
KeptParts(parts) ==
    IF parts = <<>> THEN <<>>
    ELSE (IF Strip(Head(parts)) = <<>> THEN <<>> ELSE <<StrSc(Strip(Head(parts)))>>)
             \o KeptParts(Tail(parts))

Literals(s, sep) == \A i \in 1..Len(Split(s, sep)) : StrIsInt(Split(s, sep)[i])

\* The raw value carries a number of values other than 2 in one of the
\* shapes of an image size, and how many: a list, a tuple, a JSON array,
\* integer literals separated by "x" or by ",".
WrongArity ==
    \/ param.t \in {"list", "tuple"} /\ Len(param.items) # 2
    \/ /\ param.t = "str"
       /\ \/ /\ StartsWith(Text, "[")
             /\ JsonLoads(Text).ok
             /\ JsonLoads(Text).val.t = "list"
             /\ Len(JsonLoads(Text).val.items) # 2
          \/ Literals(Text, "x") /\ Len(Split(Text, "x")) # 2
          \/ Literals(Text, ",") /\ Len(Split(Text, ",")) # 2

C22_PositiveSize ==
    (nop = "parse_image_size_param" /\ param.t # "none" /\ nres.st = "ok") =>
        \A i \in 1..Len(nres.val.items) : nres.val.items[i].n > 0

\* The list [0, 6] was returned as [0, 6].
C22_Witness ==
    /\ nop = "parse_image_size_param"
    /\ shape = "list"
    /\ lv = <<IntSc(0), IntSc(6)>>
    /\ nres = Ret(ListV(FreshId, <<IntSc(0), IntSc(6)>>))

\* C23 as stated: "WxH" and "WXH", with optional whitespace around each
\* component, both normalize to [W, H].
C23_SeparatorEitherCase ==
    (nop = "parse_image_size_param" /\ shape \in {"WxH", " W x H ", "WXH"}) =>
        nres = Ret(ListV(FreshId, lv))

\* C23, amended: "WxH", with optional whitespace around each component,
\* normalizes to [W, H]; the separator is the lower-case "x" only, and
\* "WXH" raises "Cannot parse image size from WXH".
C23_LowerCaseSeparator ==
    /\ (nop = "parse_image_size_param" /\ shape \in {"WxH", " W x H "}) =>
          nres = Ret(ListV(FreshId, lv))
    /\ (nop = "parse_image_size_param" /\ shape = "WXH") =>
          nres = CannotParseSize(param.chars)

\* " 10 x 7 " was normalized to [10, 7].
C23_Witness ==
    /\ nop = "parse_image_size_param"
    /\ shape = " W x H "
    /\ param = StrV(<<" ", "1", "0", " ", "x", " ", "7", " ">>)
    /\ nres = Ret(ListV(FreshId, <<IntSc(10), IntSc(7)>>))

\* Three floating-point numbers in a new list.
ThreeFloats(r) ==
    /\ r.st = "ok"
    /\ r.val.t = "list"
    /\ r.val.id = FreshId
    /\ Len(r.val.items) = 3
    /\ \A i \in 1..3 : r.val.items[i].ty = "float"

\* C24: for every raw value that is not absent, parse_camera_param returns
\* exactly 3 floating-point components, those of x, y and z in this order
\* for a mapping, or raises: a list whose length is not 3, a mapping that
\* lacks one of the keys x, y, z and a value of any other type are rejected
\* with a ValueError that says so, and a string that does not decode, or
\* decodes to neither shape, with a ValueError that names the original
\* string.
C24_ThreeFloatsOrError ==
    (nop = "parse_camera_param" /\ param.t # "none") =>
        /\ ThreeFloats(nres) \/ nres.st = "raise"
        /\ (shape \in CameraShapes /\ Len(lv) = 3) => nres = Ret(CanonicalCamera(lv))
        /\ (param.t = "dict" /\ ThreeFloats(nres)) =>
              \A i \in 1..3 :
                 nres.val.items[i] = ToFloat(DictGet(param, <<KeyX, KeyY, KeyZ>>[i])).sc
        /\ (param.t = "list" /\ Len(param.items) # 3) =>
              /\ nres.st = "raise"
              /\ nres.exc = "ValueError"
              /\ nres.msg = "Expected 3 values for camera parameter, got"
              /\ nres.n = Len(param.items)
        /\ (param.t = "dict" /\ \E k \in {KeyX, KeyY, KeyZ} : ~HasKey(param, k)) =>
              /\ nres.st = "raise"
              /\ nres.exc = "ValueError"
              /\ nres.msg = "Dict must have x, y, z keys, got"
        /\ param.t \notin {"list", "dict", "str"} =>
              /\ nres.st = "raise"
              /\ nres.exc = "ValueError"
              /\ nres.msg = "Unexpected type for camera parameter"
        /\ (/\ param.t = "str"
            /\ \/ ~JsonLoads(Text).ok
               \/ JsonLoads(Text).val.t \notin {"list", "dict"}
               \/ JsonLoads(Text).val.t = "list" /\ Len(JsonLoads(Text).val.items) # 3
               \/ /\ JsonLoads(Text).val.t = "dict"
                  /\ \E k \in {KeyX, KeyY, KeyZ} : ~HasKey(JsonLoads(Text).val, k)) =>
              /\ nres.st = "raise"
              /\ nres.exc = "ValueError"
              /\ nres.msg = "Cannot parse as camera parameter"
              /\ nres.echo = param.chars

\* The mapping {z: 3, x: 1, y: 2} was normalized to [1.0, 2.0, 3.0].
C24_Witness ==
    /\ nop = "parse_camera_param"
    /\ param = DictV("param", <<KeyZ, KeyX, KeyY>>, <<IntSc(3), IntSc(1), IntSc(2)>>)
    /\ nres = Ret(ListV(FreshId, <<FloatSc(1, 0), FloatSc(2, 0), FloatSc(3, 0)>>))

\* C26 as stated: a string that matches no accepted shape falls back to the
\* default instead of raising or giving another value: parse_list_param
\* returns the default for an empty or blank string, parse_dict_param for an
\* empty or blank string and for any string that neither decodes as a JSON
\* object nor has a key=value pair.
C26_FallsBackToDefault ==
    /\ (nop = "parse_list_param" /\ param.t = "str" /\ Text = <<>>) => nres = Ret(default)
    /\ (/\ nop = "parse_dict_param"
        /\ param.t = "str"
        /\ ~(StartsWith(Text, "{") /\ JsonLoads(Text).ok)
        /\ ~HasEq(Text)) => nres = Ret(default)

\* The blank string "   " was given to parse_list_param, which returned [""].
C26_Witness ==
    /\ nop = "parse_list_param"
    /\ param = StrV(<<" ", " ", " ">>)
    /\ nres = Ret(ListV(FreshId, <<StrSc(<<>>)>>))

(***************************************************************************)
(* Properties of the response size manager (SpecMgr)                       *)
(***************************************************************************)

Recs(p) == call[p].images.recs

Auto(p) == call[p].output_format = "auto"

\* The caller is past the "auto" block.
Started(p) == pc[p] \notin {"idle", "start"}

Estimate(p) == estimate_response_size(call[p].images)

\* The trial compression of the first payload succeeds with a ratio below 0.7.
FirstShrinks(p) ==
    /\ Len(Recs(p)) >= 1
    /\ compress_base64_image(Recs(p)[1].data).ok
    /\ 10 * Len(compress_base64_image(Recs(p)[1].data).data) < 7 * Len(Recs(p)[1].data)

\* The response value v is the one of the image with this name and payload.
Belongs(v, name, data) ==
    CASE v.type \in {"str", "base64"} -> v.data = data
      [] v.type = "base64_compressed" ->
            compress_base64_image(data).ok /\ v.data = compress_base64_image(data).data
      [] v.type = "file_path" -> v.path.name = name
      [] OTHER -> FALSE

\* The file a file_path descriptor points at exists and holds these bytes.
Holds(v, bytes) ==
    /\ v.type = "file_path"
    /\ \E f \in fs : /\ f.dir = v.path.dir
                     /\ f.name = v.path.name
                     /\ f.tok = v.path.tok
                     /\ f.bytes = bytes

\* C3: in every output mode a call that returns drops and reorders nothing:
\* a mapping comes back as a mapping with the same names, a sequence of n
\* records as a sequence of n descriptors, and the i-th value is the one of
\* the i-th image.
C3_NothingDropped ==
    \A p \in Procs :
        pc[p] = "done" =>
            /\ ret[p].kind = call[p].images.kind
            /\ Len(ret[p].entries) = Len(Recs(p))
            /\ \A i \in 1..Len(Recs(p)) :
                  /\ ret[p].kind = "dict" => ret[p].entries[i].name = Recs(p)[i].name
                  /\ Belongs(ret[p].entries[i].value, W(p)[i].name, Recs(p)[i].data)

\* A sequence of two different images has come back compressed and inline,
\* in this order.
C3_Witness ==
    /\ pc["A"] = "done"
    /\ call["A"].images.kind = "list"
    /\ Len(Recs("A")) = 2
    /\ Recs("A")[1].data = PngGood
    /\ Recs("A")[2].data = Raw
    /\ ret["A"].entries[1].value.type = "base64_compressed"
    /\ ret["A"].entries[2].value = InlineDesc(Raw)

\* C4: in automatic mode a mapping whose estimate is below the budget
\* resolves to inline mode and comes back as the plain mapping name -> raw
\* payload, without descriptors; no file is written and nothing is handed to
\* the compressor.
C4_SmallMappingStaysPlain ==
    \A p \in Procs :
        (Auto(p) /\ Started(p) /\ call[p].images.kind = "dict"
           /\ Estimate(p) < call[p].max_size) =>
            /\ fmt[p] = "base64"
            /\ clog[p] = <<>>
            /\ fs \subseteq {StaleFile}
            /\ pc[p] \in {"loop", "done"}
            /\ pc[p] = "done" =>
                  ret[p] = [kind |-> "dict",
                            entries |-> [i \in 1..Len(Recs(p)) |->
                                           [name |-> Recs(p)[i].name,
                                            value |-> RawStr(Recs(p)[i].data)]]]

\* A mapping of two images under the default budget has come back plain.
C4_Witness ==
    /\ pc["A"] = "done"
    /\ Auto("A")
    /\ call["A"].images.kind = "dict"
    /\ call["A"].max_size = 25000
    /\ Len(ret["A"].entries) = 2
    /\ ret["A"].entries[1] = [name |-> "front", value |-> RawStr(PngGood)]
    /\ ret["A"].entries[2].value.type = "str"

\* C5 as stated: in automatic mode inline mode is chosen only when the
\* estimate is strictly below the budget, and an estimate equal to or above
\* the budget leads to compressed or file-backed mode, never to inline.
C5_InlineOnlyBelowBudget ==
    \A p \in Procs :
        (Auto(p) /\ Started(p)) =>
            /\ fmt[p] = "base64" => Estimate(p) < call[p].max_size
            /\ Estimate(p) >= call[p].max_size => fmt[p] \in {"compressed", "file_path"}

\* C5, amended: in automatic mode inline mode is chosen exactly when the
\* estimate is at most the budget; when the estimate is strictly above it
\* the first payload is trial-compressed and the mode resolves to compressed
\* or file-backed, never to inline.
C5_InlineUpToBudget ==
    \A p \in Procs :
        (Auto(p) /\ Started(p)) =>
            /\ fmt[p] = "base64" <=> Estimate(p) <= call[p].max_size
            /\ Estimate(p) > call[p].max_size =>
                  /\ fmt[p] \in {"compressed", "file_path"}
                  /\ Len(Recs(p)) >= 1 => (Len(clog[p]) >= 1 /\ clog[p][1] = <<"trial", 1>>)

\* A call whose estimate equals its budget has come back inline.
C5_Witness ==
    /\ pc["A"] = "done"
    /\ Auto("A")
    /\ Len(Recs("A")) >= 1
    /\ Estimate("A") = call["A"].max_size
    /\ fmt["A"] = "base64"
    /\ clog["A"] = <<>>

\* C6: in automatic mode with the estimate over the budget the mode depends
\* on the first payload alone: compressed exactly when its trial compression
\* succeeds with compressed length / original length below 0.7, file-backed
\* otherwise; and the trial hands no payload but the first to the compressor.
C6_FirstPayloadDecides ==
    \A p \in Procs :
        (Auto(p) /\ Started(p) /\ Estimate(p) > call[p].max_size) =>
            /\ fmt[p] = IF FirstShrinks(p) THEN "compressed" ELSE "file_path"
            /\ \A k \in 1..Len(clog[p]) : clog[p][k][1] = "trial" => clog[p][k] = <<"trial", 1>>

\* The first payload compresses to exactly 0.7 and the second would compress
\* below it: the call went to files.
C6_Witness ==
    /\ Auto("A")
    /\ Started("A")
    /\ Estimate("A") > call["A"].max_size
    /\ Len(Recs("A")) = 2
    /\ Recs("A")[1].data = PngEdge
    /\ Recs("A")[2].data = PngGood
    /\ fmt["A"] = "file_path"
    /\ clog["A"] = <<<<"trial", 1>>>>

\* Every value of the response is a file_path descriptor whose file lies in
\* the output directory and holds the decoded bytes of its image.
AllInFiles(p) ==
    \A i \in 1..Len(Recs(p)) :
        /\ i <= Len(ret[p].entries)
        /\ ret[p].entries[i].value.type = "file_path"
        /\ ret[p].entries[i].value.path.dir = wdir[p]
        /\ Holds(ret[p].entries[i].value, b64decode(Recs(p)[i].data).bytes)

\* C7 as stated: in automatic mode with the estimate above the budget every
\* image is resolved to file-backed mode, and every returned path exists in
\* the output directory and holds the decoded bytes of its image.
C7_OverBudgetGoesToFiles ==
    \A p \in Procs :
        (Auto(p) /\ Started(p) /\ Estimate(p) > call[p].max_size) =>
            /\ fmt[p] = "file_path"
            /\ pc[p] = "done" => AllInFiles(p)

\* C7, amended: in automatic mode with the estimate above the budget, when
\* the trial compression of the first payload fails or does not bring it
\* below 0.7 of its length, every image is resolved to file-backed mode, and
\* every returned path exists in the output directory and holds the decoded
\* bytes of its image.
C7_OverBudgetGoesToFilesUnlessShrinks ==
    \A p \in Procs :
        (Auto(p) /\ Started(p) /\ Estimate(p) > call[p].max_size /\ ~FirstShrinks(p)) =>
            /\ fmt[p] = "file_path"
            /\ pc[p] = "done" => AllInFiles(p)

\* Two images over a tiny budget have come back as two files in the default
\* output directory.
C7_Witness ==
    /\ pc["A"] = "done"
    /\ Auto("A")
    /\ Estimate("A") > call["A"].max_size
    /\ call["A"].output_dir = NoDir
    /\ Len(Recs("A")) = 2
    /\ Len(ret["A"].entries) = 2
    /\ AllInFiles("A")

\* C8 as stated: with output mode compressed the call does not raise, the
\* response entry of every image whose compression fails is an inline
\* descriptor (type base64, the original payload as data), and the other
\* images come back compressed.
C8_FailedCompressionIsInlineDescriptor ==
    \A p \in Procs :
        call[p].output_format = "compressed" =>
            /\ pc[p] # "raised"
            /\ pc[p] = "done" =>
                  \A i \in 1..Len(Recs(p)) :
                      ret[p].entries[i].value =
                          IF compress_base64_image(Recs(p)[i].data).ok
                          THEN CompressedDesc(compress_base64_image(Recs(p)[i].data).data,
                                              Recs(p)[i].data)
                          ELSE InlineDesc(Recs(p)[i].data)

\* C9: in file-backed mode a payload that does not decode, or a file that
\* cannot be written, makes the call raise without returning anything; no
\* inline descriptor stands in for a file, and a file_path descriptor is
\* only built, and only returned, for a path that holds the decoded bytes of
\* its image.
C9_FileOrFailure ==
    \A p \in Procs :
        /\ pc[p] = "raised" => ret[p] = NoRet
        /\ (Started(p) /\ fmt[p] = "file_path") =>
              /\ \A i \in 1..Len(result[p]) :
                    /\ Recs(p)[i].data # Bad
                    /\ Holds(result[p][i].value, b64decode(Recs(p)[i].data).bytes)
              /\ pc[p] = "done" =>
                    /\ Len(result[p]) = Len(Recs(p))
                    /\ ret[p].entries =
                          [i \in 1..Len(Recs(p)) |->
                             [name |-> IF ret[p].kind = "dict" THEN Recs(p)[i].name ELSE "",
                              value |-> result[p][i].value]]

\* The second payload of a file-backed call does not decode: the call has
\* raised after saving the first.
C9_Witness ==
    /\ pc["A"] = "raised"
    /\ fmt["A"] = "file_path"
    /\ Len(Recs("A")) = 2
    /\ Recs("A")[2].data = Bad
    /\ Len(result["A"]) = 1
    /\ Holds(result["A"][1].value, b64decode(Recs("A")[1].data).bytes)
    /\ ret["A"] = NoRet

\* C10 as stated: a call whose output mode is none of auto, base64,
\* file_path, compressed is rejected before any image is processed: no
\* descriptor is built, nothing is compressed, no file is written, and
\* nothing is returned.
C10_UnknownModeRejected ==
    \A p \in Procs :
        (pc[p] # "idle"
           /\ call[p].output_format \notin {"auto", "base64", "file_path", "compressed"}) =>
            /\ pc[p] \in {"start", "raised"}
            /\ result[p] = <<>>
            /\ clog[p] = <<>>
            /\ ret[p] = NoRet

C13_OneVariant ==
    \A p \in Procs :
        \A i \in 1..Len(result[p]) :
            LET v == result[p][i].value
            IN  /\ v.type \in {"base64", "base64_compressed", "file_path"}
                /\ {"type", "mime_type"} \subseteq v.fields
                /\ ("path" \in v.fields) <=> (v.type = "file_path")
                /\ ("path" \in v.fields) <=> (v.path # NoPath)
                /\ ("data" \in v.fields) <=> (v.type # "file_path")
                /\ ("compression_ratio" \in v.fields) <=> (v.type = "base64_compressed")
                /\ ("compression_ratio" \in v.fields) <=> (v.ratio # NoRatio)
                /\ fmt[p] = "file_path" => v.type = "file_path"

\* A compressed call has built a compressed descriptor and, for an image
\* that does not compress, an inline one.
C13_Witness ==
    /\ fmt["A"] = "compressed"
    /\ Len(result["A"]) = 2
    /\ result["A"][1].value.type = "base64"
    /\ result["A"][2].value.type = "base64_compressed"
    /\ result["A"][2].value.ratio = <<24, 40>>

\* The characters of the names of the model.
NameChars(n) ==
    CASE n = "front" -> <<"f", "r", "o", "n", "t">>
      [] n = "top" -> <<"t", "o", "p">>
      [] n = "side" -> <<"s", "i", "d", "e">>
      [] n = "back" -> <<"b", "a", "c", "k">>
      [] n = "render" -> <<"r", "e", "n", "d", "e", "r">>

\* The JSON text of one record: "name": "payload", or {"data": "payload"}.
MemberText(rec, keyed) ==
    IF keyed
    THEN <<"\"">> \o NameChars(rec.name) \o <<"\"", ":", " ", "\"">> \o rec.data \o <<"\"">>
    ELSE <<"{", "\"", "d", "a", "t", "a", "\"", ":", " ", "\"">> \o rec.data \o <<"\"", "}">>

RECURSIVE MembersText(_, _)
MembersText(recs, keyed) ==
    IF recs = <<>> THEN <<>>
    ELSE MemberText(Head(recs), keyed)
            \o (IF Len(recs) > 1 THEN <<",", " ">> ELSE <<>>)
            \o MembersText(Tail(recs), keyed)

\* The text json.dumps gives for the images, character by character.
JsonText(images) ==
    IF images.kind = "dict" THEN <<"{">> \o MembersText(images.recs, TRUE) \o <<"}">>
    ELSE <<"[">> \o MembersText(images.recs, FALSE) \o <<"]">>

C27_PayloadOverFour ==
    \A p \in Procs :
        (/\ Started(p)
         /\ call[p].images.kind = "dict"
         /\ Len(Recs(p)) = 1
         /\ Len(Recs(p)[1].data) % 4 = 0) =>
            Estimate(p) = Len(Recs(p)[1].data) \div 4

\* {"front": <40 characters>} has the estimate 13, not 10.
C27_Witness ==
    /\ Started("A")
    /\ call["A"].images = [kind |-> "dict", recs |-> <<[name |-> "front", data |-> PngGood]>>]
    /\ Len(PngGood) = 40
    /\ Estimate("A") = 13

\* The images of the call in input order, with the names of their files.
Inputs(p) == working_images(call[p].images)

\* The files in the output directory of the call under the name of its i-th
\* image, a file of an earlier call apart.
FilesOf(p, i) == {f \in fs \ {StaleFile} : f.dir = wdir[p] /\ f.name = Inputs(p)[i].name}

\* A file-backed call has saved the images before position idx, in input
\* order, each in a file with its decoded bytes; when it has raised, it has
\* returned nothing, and no later image has a file.
SavedPrefix(p) ==
    /\ Len(result[p]) = idx[p] - 1
    /\ \A i \in 1..Len(result[p]) :
          /\ result[p][i].name = Inputs(p)[i].name
          /\ Holds(result[p][i].value, b64decode(Inputs(p)[i].data).bytes)
    /\ pc[p] = "raised" =>
          /\ ret[p] = NoRet
          /\ \A i \in (idx[p] + 1)..Len(Inputs(p)) : FilesOf(p, i) = {}

ReturnedFile(p) ==
    /\ pc[p] = "done"
    /\ fmt[p] = "file_path"
    /\ Len(ret[p].entries) = 1
    /\ ret[p].entries[1].value.type = "file_path"

\* C11 as stated: two concurrent file-backed materializations of images
\* that share the logical name and the output directory never collide, in
\* any interleaving: the two paths are distinct, both files exist, and
\* neither call has overwritten the other's file.
C11_NoCollision ==
    (ReturnedFile("A") /\ ReturnedFile("B")) =>
        /\ ret["A"].entries[1].value.path # ret["B"].entries[1].value.path
        /\ Holds(ret["A"].entries[1].value, b64decode(Recs("A")[1].data).bytes)
        /\ Holds(ret["B"].entries[1].value, b64decode(Recs("B")[1].data).bytes)

\* When the two calls draw different tokens the claim's case goes well: two
\* paths, two files, each with the bytes of its own image.
C11_DistinctTokens ==
    /\ ReturnedFile("A")
    /\ ReturnedFile("B")
    /\ Recs("A")[1].data = Raw
    /\ Recs("B")[1].data = PngGood
    /\ ret["A"].entries[1].value.path.tok # ret["B"].entries[1].value.path.tok
    /\ Holds(ret["A"].entries[1].value, b64decode(Raw).bytes)
    /\ Holds(ret["B"].entries[1].value, GoodBytes)

(***************************************************************************)
(* Properties of render_single (SpecRender)                                *)
(***************************************************************************)

\* Exactly one of scad_content and scad_file is given.
OneSource == (req.scad_content # "") # (req.scad_file # "")

KnownView == \E i \in 1..Len(VIEW_PRESETS) : VIEW_PRESETS[i].name = req.view

\* The normalizer accepts the raw argument (the default is not read).
CamerasOk ==
    /\ parse_camera_param(req.camera_position, NoneV).st = "ok"
    /\ parse_camera_param(req.camera_target, NoneV).st = "ok"
    /\ parse_camera_param(req.camera_up, NoneV).st = "ok"

SizeOk == parse_image_size_param(req.image_size, NoneV).st = "ok"

VariablesOk == parse_dict_param(req.variables, NoneV).st = "ok"

\* render_single has raised: the exception has left the call.
Raised == rpc = "raised" /\ rret.st = "raise"

\* C14: render_single raises a validation error whenever it is not given
\* exactly one of scad_content and scad_file (both given, or neither, an
\* empty text counting as not given), and the renderer is then never called.
C14_ExactlyOneSource ==
    (rpc # "start" /\ ~OneSource) =>
        /\ Raised
        /\ rret.exc = "ValueError"
        /\ rret.msg = "Exactly one of scad_content or scad_file must be provided"
        /\ rlog = <<>>

\* Both sources are given, everything else is well-formed, and the call has
\* raised without a call of the renderer.
C14_Witness ==
    /\ req.scad_content # ""
    /\ req.scad_file # ""
    /\ req.view = "top"
    /\ SizeOk
    /\ VariablesOk
    /\ Raised
    /\ rlog = <<>>

\* The output format is one of the documented names, or absent.
FormatOk == req.output_format \in {"", "auto", "base64", "file_path", "compressed"}

\* C15 as stated: every validation error (source exclusivity, unknown view
\* name, malformed camera, image size or variables, unknown output-format
\* name) is raised before the renderer is called, and the renderer is called
\* at most once per call.
C15_ValidationBeforeRenderer ==
    /\ Len(rlog) <= 1
    /\ Raised => rlog = <<>>
    /\ (/\ rpc # "start"
        /\ \/ ~OneSource
           \/ req.view # "" /\ ~KnownView
           \/ req.view = "" /\ ~CamerasOk
           \/ ~SizeOk
           \/ ~VariablesOk
           \/ ~FormatOk)
       => (Raised /\ rlog = <<>>)

\* The failing case: a well-formed call but for the output format "png" has
\* called the renderer and returned a success envelope.
C15_Witness ==
    /\ OneSource
    /\ req.view = ""
    /\ CamerasOk
    /\ SizeOk
    /\ VariablesOk
    /\ req.output_format = "png"
    /\ Len(rlog) = 1
    /\ rpc = "done"
    /\ rret.success

\* C16: every value render_single returns is a well-formed envelope: it has
\* an operation_id; with success true it has the mime type image/png and
\* exactly one of data and path; and when the renderer or the response
\* manager raises after the validation, no exception leaves render_single:
\* it returns success false with a non-empty error and an operation_id.
C16_WellFormedEnvelope ==
    /\ rpc = "done" =>
          /\ "operation_id" \in rret.fields
          /\ rret.operation_id \in OperationIds
          /\ "success" \in rret.fields
          /\ rret.success =>
                /\ "mime_type" \in rret.fields
                /\ rret.mime_type = "image/png"
                /\ ("data" \in rret.fields) # ("path" \in rret.fields)
                /\ "path" \in rret.fields => rret.path # NoPath
          /\ ~rret.success => "error" \in rret.fields /\ rret.error # ""
    /\ Raised => rlog = <<>>
    /\ (rpc = "done" /\ pc["A"] = "raised") => ~rret.success

\* The response manager has raised on the file of the render, and
\* render_single has returned the failure envelope.
C16_Witness ==
    /\ rpc = "done"
    /\ req.output_format = "file_path"
    /\ pc["A"] = "raised"
    /\ Len(rlog) = 1
    /\ ~rret.success
    /\ rret.fields = {"success", "error", "operation_id"}
    /\ rret.error = "Failed to save image to file: "

\* The list render_single makes of a preset's vector.
PresetList(t) == ListV(FreshId, [i \in 1..3 |-> IntSc(t[i])])

\* C17: when a named view is given, the renderer receives the preset's
\* camera position, target and up vector whatever the caller's raw camera
\* values are (they are not read: a malformed one raises nothing), and
\* auto_center is true; a view name outside the table is rejected, without a
\* call of the renderer, by an error that lists the valid names (the source
\* check comes first, with its own error).
C17_ViewPreset ==
    /\ (rpc # "start" /\ OneSource /\ req.view # "" /\ KnownView /\ SizeOk /\ VariablesOk) =>
          /\ ~Raised
          /\ \A k \in 1..Len(rlog) : \A i \in 1..Len(VIEW_PRESETS) :
                VIEW_PRESETS[i].name = req.view =>
                    /\ rlog[k].camera_position = PresetList(VIEW_PRESETS[i].pos)
                    /\ rlog[k].camera_target = PresetList(VIEW_PRESETS[i].target)
                    /\ rlog[k].camera_up = PresetList(VIEW_PRESETS[i].up)
                    /\ rlog[k].auto_center = TRUE
    /\ (rpc # "start" /\ req.view # "" /\ ~KnownView) =>
          /\ Raised
          /\ rlog = <<>>
          /\ OneSource =>
                /\ rret.msg = "Invalid view name. Must be one of"
                /\ rret.echo = <<req.view, "front", "back", "left", "right", "top", "bottom",
                                 "isometric", "dimetric">>

\* The view "top" with a malformed raw camera position and auto_center
\* false: the renderer was called with the preset and auto_center true.
C17_Witness ==
    /\ req.view = "top"
    /\ ~CamerasOk
    /\ ~req.auto_center
    /\ Len(rlog) = 1
    /\ rlog[1].camera_position = ListV(FreshId, <<IntSc(0), IntSc(0), IntSc(200)>>)
    /\ rlog[1].camera_up = ListV(FreshId, <<IntSc(0), IntSc(1), IntSc(0)>>)
    /\ rlog[1].auto_center

\* The path save_image_to_file was called with by the caller: output_dir and
\* the file name.
SavePath(p) == [dir |-> wdir[p], name |-> cur[p].file[1], tok |-> cur[p].file[2]]

\* C28: a save that succeeds has created the directory, leaves the decoded
\* bytes of its payload at output_dir/filename, whatever an earlier save
\* left there, and returns exactly that path; every file under another name
\* is as it was.
C28_SaveOverwritesItsPathOnly ==
    [][\A p \in Procs :
          (pc[p] = "save_write" /\ pc'[p] = "loop") =>
              /\ wdir[p] \in dirs
              /\ cur[p].bytes = b64decode(Inputs(p)[idx[p]].data).bytes
              /\ result'[p][Len(result'[p])].value.type = "file_path"
              /\ result'[p][Len(result'[p])].value.path = SavePath(p)
              /\ \E f \in fs' :
                    /\ [dir |-> f.dir, name |-> f.name, tok |-> f.tok] = SavePath(p)
                    /\ f.bytes = cur[p].bytes
              /\ \A f \in fs \cup fs' :
                    [dir |-> f.dir, name |-> f.name, tok |-> f.tok] # SavePath(p)
                        => (f \in fs /\ f \in fs')
              /\ \A f, g \in fs' :
                    (f.dir = g.dir /\ f.name = g.name /\ f.tok = g.tok) => f = g]_vars

\* Two saves of different images under the same file name have both
\* succeeded, with the same path returned: one file is there.
C28_Witness ==
    /\ ReturnedFile("A")
    /\ ReturnedFile("B")
    /\ Recs("A")[1].data = Raw
    /\ Recs("B")[1].data = PngGood
    /\ ret["A"].entries[1].value.path = ret["B"].entries[1].value.path
    /\ Cardinality(fs) = 1
    /\ \A f \in fs : f.bytes \in {b64decode(Raw).bytes, GoodBytes}

(***************************************************************************)
(* The global configuration: utils/config.py, get_config and set_config    *)
(***************************************************************************)

\* The calls of one run are bounded.
MaxCalls == 5

\* Lines 311: the module has just been imported.
InitCfg ==
    /\ NormIdle
    /\ MgrIdle
    /\ RenderIdle

\* A get_config that builds a configuration from the environment every time.
GetConfig_rebuilds ==
    /\ Len(cfglog) < MaxCalls
    /\ _config' = "env"
    /\ built' = built + 1
    /\ cfglog' = Append(cfglog, <<"get", _config'>>)
    /\ UNCHANGED <<fs, dirs, call, pc, fmt, wdir, idx, result, cur, clog, ret>>
    /\ UNCHANGED <<nvars, rvars>>

\* Lines 314-324: get_config().
GetConfig ==
    /\ Len(cfglog) < MaxCalls
    /\ _config' = IF _config = "none" THEN "env" ELSE _config
    /\ built' = IF _config = "none" THEN built + 1 ELSE built
    /\ cfglog' = Append(cfglog, <<"get", _config'>>)
    /\ UNCHANGED <<fs, dirs, call, pc, fmt, wdir, idx, result, cur, clog, ret>>
    /\ UNCHANGED <<nvars, rvars>>

\* Lines 327-335: set_config(config), with one of two Config instances (the
\* parameter is annotated Config); "other" keeps the default temp_dir.
SetConfig ==
    /\ Len(cfglog) < MaxCalls
    /\ \E config \in {"set", "other"} :
          /\ _config' = config
          /\ cfglog' = Append(cfglog, <<"set", config>>)
    /\ UNCHANGED <<built, fs, dirs, call, pc, fmt, wdir, idx, result, cur, clog, ret>>
    /\ UNCHANGED <<nvars, rvars>>

SpecCfg == InitCfg /\ [][GetConfig \/ SetConfig]_vars

\* The last set_config before call i of the log, 0 if there is none.
LastSet(i) ==
    LET before == {j \in 1..(i - 1) : cfglog[j][1] = "set"}
    IN IF before = {} THEN 0 ELSE CHOOSE j \in before : \A k \in before : k <= j

\* C29: over any sequence of get_config and set_config calls, a get_config
\* after set_config(c) returns c itself until the next set_config, and a
\* get_config before every set_config returns the configuration built from
\* the environment, which is built at most once (so these calls return one
\* instance) and only by a get_config that no set_config precedes.
C29_OneConfigUntilSet ==
    /\ \A i \in 1..Len(cfglog) :
          cfglog[i][1] = "get" =>
              cfglog[i][2] = IF LastSet(i) = 0 THEN "env" ELSE cfglog[LastSet(i)][2]
    /\ built <= 1
    /\ built = 1 <=> \E i \in 1..Len(cfglog) : cfglog[i][1] = "get" /\ LastSet(i) = 0
    /\ _config = IF cfglog = <<>> THEN "none" ELSE cfglog[Len(cfglog)][2]

\* Two get_config calls, set_config(c), two more calls, with one
\* configuration built.
C29_Witness ==
    /\ cfglog = <<<<"get", "env">>, <<"get", "env">>, <<"set", "other">>,
                  <<"get", "other">>, <<"get", "other">>>>
    /\ built = 1

====
